---- MODULE Spec2Model ----
(***************************************************************************)
(* The linear-programming front ends of pink_winners: the launcher         *)
(* (run_lp_solver.py), the command-line menu (lp_solver_cli.py) and the    *)
(* Tk form (linear_programming_interface.py), each with its normalisation  *)
(* of a problem to the solver's (c, A_ub, b_ub, A_eq, b_eq, bounds) and    *)
(* its translation of the solver's result.                                 *)
(*                                                                         *)
(* Numbers are counted in hundredths: 3 is 300, 0.5 is 50, 0.08 is 8.  The *)
(* programs only copy, negate and compare the numbers they read.           *)
(***************************************************************************)
EXTENDS Integers, Sequences, FiniteSets, TLC

VARIABLES
    launcherPc,   \* run_lp_solver.main: "start", "menu", "gui", "cli", "done"
    launched,     \* the interfaces run_lp_solver.main has started, in order
    cliPc,        \* lp_solver_cli.main: "off", "menu", "exited", "crashed"
    problem,      \* LPSolverCLI.problem, the dict
    saved,        \* the working directory's file the CLI user saves to
    answers,      \* the problem the user of this session has in mind, as typed
    entered,      \* what the user answered in the last completed input_problem
    linprogCall,  \* the arguments handed to linprog in this step, if any
    result,       \* what linprog returned in this step, if it returned
    trace,        \* what this step began, in order: "normalize" (building the
                  \* arrays from what the user gave), "linprog", "translate"
                  \* (showing the result)
    cliOut,       \* what the console printed about a solve in this step
    guiPc,        \* linear_programming_interface.main: "off", "running", "closed"
    num_variables,       \* LinearProgrammingInterface.num_variables (IntVar)
    num_constraints,     \* .num_constraints (IntVar)
    objective_type,      \* .objective_type (StringVar)
    obj_entries,         \* .obj_entries: the text of each entry
    constraint_entries,  \* .constraint_entries: per row, the text of each entry
    bound_entries,       \* .bound_entries
    type_combos,         \* .type_combos: the text of each combobox
    results_text,        \* .results_text: its lines
    optimal_value_label, \* .optimal_value_label
    status_label,        \* .status_label
    dialog,       \* the messagebox shown in this step, if any
    guiDir,       \* the lp_problem*.json files of the working directory
    scriptPc      \* test_solver.main and demo.main: "off", the function to run
                  \* next, "done", "crashed"

launcherVars == <<launcherPc, launched>>
cliVars == <<cliPc, problem, saved, entered>>
solverVars == <<linprogCall, result, trace>>
formVars == <<num_variables, num_constraints, objective_type, obj_entries,
              constraint_entries, bound_entries, type_combos>>
shownVars == <<results_text, optimal_value_label, status_label>>
guiVars == <<guiPc, formVars, shownVars, dialog, guiDir>>

vars == <<launcherVars, cliVars, answers, solverVars, cliOut, guiVars, scriptPc>>

-----------------------------------------------------------------------------
(* Bounds of the model *)

\* the largest number of variables the user asks for
MaxVars == 2
\* the largest number of constraints the user asks for
MaxCons == 2

-----------------------------------------------------------------------------
(* Text, as typed at a prompt or held by an entry, and Python's parsing    *)

\* A numeric text: "3" (plain), " 3 " (padded with blanks), "3e0" (exp).
Num(v, st) == [kind |-> "num", val |-> v, style |-> st]
\* A text that is no number: "abc", or the empty text.
Junk(st) == [kind |-> "junk", val |-> 0, style |-> st]

\* float(text): blanks around the number and an exponent are accepted.
float(t) ==
    IF t.kind = "num" THEN [ok |-> TRUE, v |-> t.val]
    ELSE [ok |-> FALSE, v |-> 0]

\* int(text): blanks are accepted; an exponent or a fraction is a ValueError.
int(t) ==
    IF t.kind = "num" /\ t.style \in {"plain", "padded"} /\ t.val % 100 = 0
    THEN [ok |-> TRUE, v |-> t.val \div 100]
    ELSE [ok |-> FALSE, v |-> 0]

\* A word as the sequence of its characters, so that lower() and
\* startswith() act on it as they do in Python.
UpperLower ==
    [ch \in {"M", "A", "X", "I", "N", "Z", "E"} |->
        CASE ch = "M" -> "m" [] ch = "A" -> "a" [] ch = "X" -> "x"
          [] ch = "I" -> "i" [] ch = "N" -> "n" [] ch = "Z" -> "z"
          [] ch = "E" -> "e"]

lower(s) ==
    [k \in 1..Len(s) |-> IF s[k] \in DOMAIN UpperLower THEN UpperLower[s[k]] ELSE s[k]]

startswith(s, prefix) ==
    /\ Len(s) >= Len(prefix)
    /\ SubSeq(s, 1, Len(prefix)) = prefix

\* A constraint operator as typed: its symbol and whether blanks surround it.
Op(sym, pad) == [sym |-> sym, pad |-> pad]
LE == Op("<=", FALSE)
GE == Op(">=", FALSE)
EQ == Op("=", FALSE)

\* str.strip()
strip(t) == [t EXCEPT !.pad = FALSE]

-----------------------------------------------------------------------------
(* Values of the CLI's problem dict and of linprog's arguments             *)

NoneVal == [ty |-> "None", v |-> <<>>]
ndarray(list) == [ty |-> "ndarray", v |-> list]
pylist(list) == [ty |-> "list", v |-> list]

ArrayAlways(list) == ndarray(list)

\* np.array(x) if x else None
ArrayOrNone(list) == IF list # <<>> THEN ndarray(list) ELSE NoneVal

\* [-x for x in row]
Negate(row) == [k \in 1..Len(row) |-> -row[k]]

CliKeys == {"maximize", "c", "A_ub", "b_ub", "A_eq", "b_eq", "num_vars"}

\* self.problem = {}: no key; a field without its key holds a placeholder.
EmptyDict ==
    [keys |-> {}, other |-> FALSE, maximize |-> FALSE, c |-> <<>>,
     A_ub |-> NoneVal, b_ub |-> NoneVal, A_eq |-> NoneVal, b_eq |-> NoneVal,
     num_vars |-> 0]

\* bool(self.problem)
Truthy(d) == d.keys # {} \/ d.other

NoCall ==
    [called |-> FALSE, by |-> "none", c |-> <<>>, A_ub |-> NoneVal,
     b_ub |-> NoneVal, A_eq |-> NoneVal, b_eq |-> NoneVal, bounds |-> <<>>]

\* bounds = [(0, None) for _ in range(n)]
Bounds(n) == [k \in 1..n |-> [lower |-> 0, upper |-> NoneVal]]

-----------------------------------------------------------------------------
(* What the user types at the prompts of LPSolverCLI.input_problem        *)

\* Two ways of typing a problem.  "whole": plain whole numbers, the prompts'
\* own spellings of the sense and of the operators.  "mixed": negative, zero
\* and fractional numbers, padded or in exponent notation, the sense spelled
\* out or in capitals, an operator with blanks around it and one that is
\* none of the three.
Patterns == {"whole", "mixed"}

ValueAt(pat, i, j) ==
    IF pat = "whole" THEN (10 * i + j) * 100
    ELSE (((3 * i + 2 * j) % 5) - 2) * 50

StyleAt(pat, i, j) ==
    IF pat = "whole" THEN "plain"
    ELSE CASE (i + j) % 3 = 0 -> "plain"
           [] (i + j) % 3 = 1 -> "exp"
           [] OTHER -> "padded"

\* The text typed for variable j of constraint i; row 0 is the objective,
\* column 0 the right-hand side.
TextAt(pat, i, j) == Num(ValueAt(pat, i, j), StyleAt(pat, i, j))

Senses == {"maximize", "minimize"}

\* How the user spells the sense at the CLI's prompt: "max", "min",
\* "Maximize", "MIN".
SenseAnswer(pat, sense) ==
    IF pat = "whole"
    THEN IF sense = "maximize" THEN <<"m", "a", "x">> ELSE <<"m", "i", "n">>
    ELSE IF sense = "maximize"
         THEN <<"M", "a", "x", "i", "m", "i", "z", "e">>
         ELSE <<"M", "I", "N">>

OpAnswers(pat) ==
    IF pat = "whole" THEN <<LE, GE, EQ>>
    ELSE <<LE, Op("==", FALSE), Op(">=", TRUE)>>

\* The operators of a problem's m constraints, taken in turn from the list
\* starting after its k-th.
OpsFrom(pat, k, m) == [i \in 1..m |-> OpAnswers(pat)[((k + i) % 3) + 1]]

AnswersFor(pat, n, m, sense, ops) ==
    [num_vars |-> Num(n * 100, "plain"),
     num_constraints |-> Num(m * 100, "plain"),
     sense |-> sense,
     obj_type |-> SenseAnswer(pat, sense),
     obj |-> [j \in 1..n |-> TextAt(pat, 0, j)],
     cons |-> [i \in 1..m |->
                 [coeffs |-> [j \in 1..n |-> TextAt(pat, i, j)],
                  type |-> ops[i],
                  bound |-> TextAt(pat, i, 0)]]]

\* Every problem a user may have in mind.
AllAnswers ==
    UNION {UNION {UNION {
        {AnswersFor(pat, n, m, sense, ops) :
            sense \in Senses, ops \in {OpsFrom(pat, k, m) : k \in 0..2}} :
        m \in 0..MaxCons} : n \in 1..MaxVars} : pat \in Patterns}

NoAnswers ==
    [num_vars |-> Junk("empty"), num_constraints |-> Junk("empty"),
     sense |-> "", obj_type |-> <<>>, obj |-> <<>>, cons |-> <<>>]

\* The same answers with one of them not a number.
Places == {"num_vars", "num_constraints", "objective", "coefficient", "bound"}

Spoilt(a, place) ==
    CASE place = "num_vars" -> [a EXCEPT !.num_vars = Junk("abc")]
      [] place = "num_constraints" -> [a EXCEPT !.num_constraints = Num(250, "plain")]
      [] place = "objective" -> [a EXCEPT !.obj[Len(a.obj)] = Junk("empty")]
      [] place = "coefficient" ->
            IF a.cons = <<>> THEN a
            ELSE [a EXCEPT !.cons[1].coeffs[1] = Junk("abc")]
      [] place = "bound" ->
            IF a.cons = <<>> THEN a
            ELSE [a EXCEPT !.cons[Len(a.cons)].bound = Junk("abc")]

-----------------------------------------------------------------------------
(* LPSolverCLI.input_problem                                               *)

AllFloat(texts) == \A k \in DOMAIN texts : float(texts[k]).ok
Floats(texts) == [k \in DOMAIN texts |-> float(texts[k]).v]

MAX == <<"m", "a", "x">>

\* obj_type = input(...).lower(); obj_type.startswith('max')
CliIsMax(obj_type) == startswith(lower(obj_type), MAX)

\* The objective stored as typed, whatever the sense.
CliObjectiveAsTyped(c, obj_type) == c

\* if obj_type.startswith('max'): c = [-x for x in c]
CliObjective(c, obj_type) == IF CliIsMax(obj_type) THEN Negate(c) ELSE c

NoRows == [A_ub |-> <<>>, b_ub |-> <<>>, A_eq |-> <<>>, b_eq |-> <<>>, ok |-> TRUE]

\* Every inequality appended as it was typed.
CliAppendStrict(acc, row, constraint_type, bound) ==
    IF constraint_type = LE
    THEN [acc EXCEPT !.A_ub = Append(@, row), !.b_ub = Append(@, bound)]
    ELSE IF constraint_type = GE
    THEN [acc EXCEPT !.A_ub = Append(@, Negate(row)), !.b_ub = Append(@, -bound)]
    ELSE IF constraint_type = EQ
    THEN [acc EXCEPT !.A_eq = Append(@, row), !.b_eq = Append(@, bound)]
    ELSE [acc EXCEPT !.ok = FALSE]

CliAppendInFront(acc, row, constraint_type, bound) ==
    IF constraint_type = LE
    THEN [acc EXCEPT !.A_ub = <<row>> \o @, !.b_ub = <<bound>> \o @]
    ELSE IF constraint_type = GE
    THEN [acc EXCEPT !.A_ub = <<Negate(row)>> \o @, !.b_ub = <<-bound>> \o @]
    ELSE [acc EXCEPT !.A_eq = <<row>> \o @, !.b_eq = <<bound>> \o @]

CliAppendUnturned(acc, row, constraint_type, bound) ==
    IF constraint_type \in {LE, GE}
    THEN [acc EXCEPT !.A_ub = Append(@, row), !.b_ub = Append(@, bound)]
    ELSE [acc EXCEPT !.A_eq = Append(@, row), !.b_eq = Append(@, bound)]

\* The if/elif/else on constraint_type, after strip().
CliAppend(acc, row, constraint_type, bound) ==
    IF constraint_type = LE
    THEN [acc EXCEPT !.A_ub = Append(@, row), !.b_ub = Append(@, bound)]
    ELSE IF constraint_type = GE
    THEN [acc EXCEPT !.A_ub = Append(@, Negate(row)), !.b_ub = Append(@, -bound)]
    ELSE [acc EXCEPT !.A_eq = Append(@, row), !.b_eq = Append(@, bound)]

\* for i in range(num_constraints): read a row, its type and its bound.
RECURSIVE CliConstraints(_, _, _, _)
CliConstraints(cons, i, count, acc) ==
    IF i > count THEN acc
    ELSE IF ~AllFloat(cons[i].coeffs) \/ ~float(cons[i].bound).ok
    THEN [acc EXCEPT !.ok = FALSE]
    ELSE CliConstraints(cons, i + 1, count,
            CliAppend(acc, Floats(cons[i].coeffs), strip(cons[i].type),
                      float(cons[i].bound).v))

\* self.problem.update({...})
CliStore(d, c, rows, n) ==
    [d EXCEPT !.keys = @ \cup {"c", "A_ub", "b_ub", "A_eq", "b_eq", "num_vars"},
              !.c = c,
              !.A_ub = ArrayOrNone(rows.A_ub),
              !.b_ub = ArrayOrNone(rows.b_ub),
              !.A_eq = ArrayOrNone(rows.A_eq),
              !.b_eq = ArrayOrNone(rows.b_eq),
              !.num_vars = n]

\* The whole method on the dict d and the answers a: the dict it leaves and
\* whether a ValueError left it.
input_problem(d, a) ==
    IF ~int(a.num_vars).ok \/ ~int(a.num_constraints).ok \/ ~AllFloat(a.obj)
    THEN [raised |-> TRUE, problem |-> d]
    ELSE LET c == CliObjective(Floats(a.obj), a.obj_type)
             d1 == [d EXCEPT !.keys = @ \cup {"maximize"},
                             !.maximize = CliIsMax(a.obj_type)]
             rows == CliConstraints(a.cons, 1, int(a.num_constraints).v, NoRows)
         IN  IF ~rows.ok
             THEN [raised |-> TRUE, problem |-> d1]
             ELSE [raised |-> FALSE, problem |-> CliStore(d1, c, rows, int(a.num_vars).v)]

-----------------------------------------------------------------------------
(* scipy.optimize.linprog, the external solver: what it accepts and the    *)
(* results it may return.  Which result a given problem gets is the        *)
(* solver's business; the front ends must cope with each of them.          *)

NoResult ==
    [status |-> "none", success |-> FALSE, message |-> "", fun |-> 0,
     x |-> <<>>, nit |-> 0]

Raised == [NoResult EXCEPT !.status = "raised", !.message = "ValueError"]

OptimalMessage == "Optimization terminated successfully. (HiGHS Status 7: Optimal)"
InfeasibleMessage == "The problem is infeasible. (HiGHS Status 8: model_status is Infeasible)"

\* Minimised values a successful solve may report: -410 and 3.6.
OptimalValues == {-41000, 360}

Optimal(n, fun) ==
    [status |-> "returned", success |-> TRUE, message |-> OptimalMessage,
     fun |-> fun,
     x |-> [j \in 1..n |-> IF fun < 0 THEN 2000 * j ELSE 480 \div j],
     nit |-> n]

\* A failed solve has neither a point nor a value (x and fun are None).
Failed(message) ==
    [status |-> "returned", success |-> FALSE, message |-> message,
     fun |-> 0, x |-> <<>>, nit |-> 0]

SolverResults(n) ==
    {Optimal(n, fun) : fun \in OptimalValues} \cup {Failed(InfeasibleMessage)}

Rows(a) == IF a.ty = "None" THEN <<>> ELSE a.v

\* linprog's check of its arguments: every row as long as c, as many bounds
\* as rows, one (lower, upper) pair per variable.
LinprogAccepts(call) ==
    LET n == Len(call.c) IN
    /\ n >= 1
    /\ \A k \in DOMAIN Rows(call.A_ub) : Len(Rows(call.A_ub)[k]) = n
    /\ \A k \in DOMAIN Rows(call.A_eq) : Len(Rows(call.A_eq)[k]) = n
    /\ Len(Rows(call.A_ub)) = Len(Rows(call.b_ub))
    /\ Len(Rows(call.A_eq)) = Len(Rows(call.b_eq))
    /\ Len(call.bounds) = n

linprog(call) ==
    IF LinprogAccepts(call) THEN SolverResults(Len(call.c)) ELSE {Raised}

-----------------------------------------------------------------------------
(* The solver on the problems the sources write out.  They have two        *)
(* variables and inequalities only, and their optimum can be computed: it  *)
(* lies at a vertex of the feasible region, the meeting point of two of    *)
(* the lines that bound it.                                                *)

UnboundedMessage == "The problem is unbounded. (HiGHS Status 10: model_status is Unbounded)"

Abs(v) == IF v < 0 THEN -v ELSE v

RECURSIVE GCD(_, _)
GCD(a, b) == IF b = 0 THEN Abs(a) ELSE GCD(b, a % Abs(b))

\* The half-plane a1*x1 + a2*x2 <= b with x counted in hundredths as a and b
\* are, in lowest terms.
HalfPlane(a1, a2, b) ==
    LET g == GCD(GCD(a1, a2), 100 * b)
    IN  IF g = 0 THEN [a1 |-> 0, a2 |-> 0, b |-> 0]
        ELSE [a1 |-> a1 \div g, a2 |-> a2 \div g, b |-> (100 * b) \div g]

\* The rows of A_ub with b_ub, and the two bounds (0, None).
HalfPlanes(call) ==
    {HalfPlane(Rows(call.A_ub)[k][1], Rows(call.A_ub)[k][2], Rows(call.b_ub)[k]) :
        k \in DOMAIN Rows(call.A_ub)}
    \cup {HalfPlane(-100, 0, 0), HalfPlane(0, -100, 0)}

Det(h, g) == h.a1 * g.a2 - h.a2 * g.a1

\* Where the lines of h and g meet: the point (x1/d, x2/d), d > 0.
Meet(h, g) ==
    LET d == Det(h, g)
        sign == IF d < 0 THEN -1 ELSE 1
    IN  [x1 |-> sign * (h.b * g.a2 - g.b * h.a2),
         x2 |-> sign * (h.a1 * g.b - g.a1 * h.b),
         d |-> sign * d]

Within(p, h) == h.a1 * p.x1 + h.a2 * p.x2 <= h.b * p.d

Vertices(call) ==
    {p \in UNION {{Meet(h, g) : g \in {f \in HalfPlanes(call) : Det(h, f) # 0}} :
                      h \in HalfPlanes(call)} :
        \A h \in HalfPlanes(call) : Within(p, h)}

CostOfFirst(call, p) == call.c[1] * p.x1

\* c.x at the point p, times p.d
Cost(call, p) == call.c[1] * p.x1 + call.c[2] * p.x2

\* The directions along the bounding lines in which the region goes on for
\* ever, and whether the objective falls along one of them.
Directions(call) ==
    {d \in UNION {{[x1 |-> h.a2, x2 |-> -h.a1, d |-> 0],
                   [x1 |-> -h.a2, x2 |-> h.a1, d |-> 0]} : h \in HalfPlanes(call)} :
        \A h \in HalfPlanes(call) : Within(d, h)}

Unbounded(call) == \E d \in Directions(call) : Cost(call, d) < 0

\* The vertices at which c.x is least.
Best(call) ==
    {p \in Vertices(call) :
        \A q \in Vertices(call) : Cost(call, p) * q.d <= Cost(call, q) * p.d}

\* The result for the point p: x and fun in hundredths.
AtVertex(call, p) ==
    [status |-> "returned", success |-> TRUE, message |-> OptimalMessage,
     fun |-> (Cost(call, p) \div p.d) \div 100,
     x |-> <<p.x1 \div p.d, p.x2 \div p.d>>,
     nit |-> 2]

\* linprog(c, A_ub=A_ub, b_ub=b_ub, bounds=bounds, method='highs') for such
\* a problem.
linprog2(call) ==
    IF ~LinprogAccepts(call) THEN {Raised}
    ELSE IF Vertices(call) = {} THEN {Failed(InfeasibleMessage)}
    ELSE IF Unbounded(call) THEN {Failed(UnboundedMessage)}
    ELSE {AtVertex(call, p) : p \in Best(call)}

-----------------------------------------------------------------------------
(* LPSolverCLI.solve and LPSolverCLI.display_results                       *)

\* One printed line: what it is, its text, its number (shown with six
\* decimals) and, for a variable, its index.
Line(tag, text, num, idx) == [tag |-> tag, text |-> text, num |-> num, idx |-> idx]

ErrorLine(what) == Line("Error solving problem", what, 0, 0)

SolveKeys == {"num_vars", "c", "A_ub", "b_ub", "A_eq", "b_eq"}

CliCallFlipped(d) ==
    [called |-> TRUE, by |-> "cli",
     c |-> IF d.maximize THEN Negate(d.c) ELSE d.c,
     A_ub |-> d.A_ub, b_ub |-> d.b_ub,
     A_eq |-> d.A_eq, b_eq |-> d.b_eq, bounds |-> Bounds(d.num_vars)]

\* The arguments solve() hands to linprog.
CliCall(d) ==
    [called |-> TRUE, by |-> "cli", c |-> d.c, A_ub |-> d.A_ub, b_ub |-> d.b_ub,
     A_eq |-> d.A_eq, b_eq |-> d.b_eq, bounds |-> Bounds(d.num_vars)]

\* The solver's value shown as it came.
CliOptimalValueRaw(d, r) == r.fun

\* optimal_value = result.fun; if self.problem['maximize']: negate it
CliOptimalValue(d, r) == IF d.maximize THEN -r.fun ELSE r.fun

\* The lines printed for a successful result.
CliSolutionLines(d, r) ==
    <<Line("Status", r.message, 0, 0), Line("Iterations", "", r.nit, 0)>>
    \o (IF "maximize" \notin d.keys THEN <<>>
        ELSE <<Line("Value", IF d.maximize THEN "Maximum" ELSE "Minimum",
                    CliOptimalValue(d, r), 0)>>
             \o [i \in 1..Len(r.x) |-> Line("x", "", r.x[i], i)]
             \o <<Line("Solution Analysis", "", 0, 0)>>)

\* The lines printed for a failed result.
CliFailureLines(r) ==
    <<Line("Status", r.message, 0, 0),
      Line("The problem could not be solved.", "", 0, 0)>>

\* display_results(result): its lines and whether a KeyError left it.
CliDisplayResults(d, r) ==
    IF r.success
    THEN [raised |-> "maximize" \notin d.keys, lines |-> CliSolutionLines(d, r)]
    ELSE [raised |-> FALSE, lines |-> CliFailureLines(r)]

\* What solve() prints once linprog has raised or returned r.
CliSolveOutput(d, r) ==
    IF r.status = "raised" THEN <<ErrorLine(r.message)>>
    ELSE IF CliDisplayResults(d, r).raised
    THEN CliDisplayResults(d, r).lines \o <<ErrorLine("KeyError")>>
    ELSE CliDisplayResults(d, r).lines

-----------------------------------------------------------------------------
(* LPSolverCLI.save_problem and LPSolverCLI.load_problem                   *)

Absent == [kind |-> "absent", d |-> EmptyDict]
Garbage == [kind |-> "garbage", d |-> EmptyDict]
Json(d) == [kind |-> "json", d |-> d]

\* value.tolist() if isinstance(value, np.ndarray) else value
tolist(a) == IF a.ty = "ndarray" THEN pylist(a.v) ELSE a

\* The document json.dump writes for the dict d.
CliSaveData(d) ==
    [d EXCEPT !.A_ub = tolist(@), !.b_ub = tolist(@),
              !.A_eq = tolist(@), !.b_eq = tolist(@)]

CliLoadArrayAsRead(d, key, a) == a

\* np.array(data[key]) if data.get(key) is not None
CliLoadArray(d, key, a) ==
    IF key \in d.keys /\ a.ty # "None" THEN ndarray(a.v) ELSE a

\* The dict load_problem stores for the document data.
CliLoadData(data) ==
    [data EXCEPT !.A_ub = CliLoadArray(data, "A_ub", @),
                 !.b_ub = CliLoadArray(data, "b_ub", @),
                 !.A_eq = CliLoadArray(data, "A_eq", @),
                 !.b_eq = CliLoadArray(data, "b_eq", @)]

\* The file name the user saves to, and a name open() refuses.
SaveName == "p.json"
SaveNames == {SaveName, ""}

\* Files the working directory holds besides: written by hand or by
\* another program.
MismatchDoc ==
    [keys |-> CliKeys, other |-> FALSE, maximize |-> FALSE, c |-> <<100, 200>>,
     A_ub |-> pylist(<< <<100>> >>), b_ub |-> pylist(<<100>>),
     A_eq |-> NoneVal, b_eq |-> NoneVal, num_vars |-> 2]

NoSenseDoc ==
    [keys |-> CliKeys \ {"maximize"}, other |-> FALSE, maximize |-> FALSE,
     c |-> <<100, 200>>, A_ub |-> pylist(<< <<100, 100>> >>),
     b_ub |-> pylist(<<400>>), A_eq |-> NoneVal, b_eq |-> NoneVal,
     num_vars |-> 2]

FormDoc == [EmptyDict EXCEPT !.other = TRUE]

\* A file whose "num_vars" is not the number of its coefficients.
WrongCountDoc ==
    [keys |-> CliKeys, other |-> FALSE, maximize |-> TRUE, c |-> <<-100, -200>>,
     A_ub |-> pylist(<< <<100, 100>> >>), b_ub |-> pylist(<<400>>),
     A_eq |-> NoneVal, b_eq |-> NoneVal, num_vars |-> 3]

OtherFiles ==
    [name \in {"notes.json", "mismatch.json", "nosense.json", "wrongcount.json",
               "lp_problem_2vars_2cons.json", "empty.json", "missing.json"} |->
        CASE name = "notes.json" -> Garbage
          [] name = "mismatch.json" -> Json(MismatchDoc)
          [] name = "wrongcount.json" -> Json(WrongCountDoc)
          [] name = "nosense.json" -> Json(NoSenseDoc)
          [] name = "lp_problem_2vars_2cons.json" -> Json(FormDoc)
          [] name = "empty.json" -> Json(EmptyDict)
          [] name = "missing.json" -> Absent]

LoadNames == {SaveName} \cup DOMAIN OtherFiles

FileAt(name) == IF name = SaveName THEN saved ELSE OtherFiles[name]

-----------------------------------------------------------------------------
(* lp_solver_cli.main: one action per pass of the menu loop                *)

InCli == launcherPc = "cli" /\ cliPc = "menu"

Silent == linprogCall' = NoCall /\ result' = NoResult /\ cliOut' = <<>>

Quiet == Silent /\ trace' = <<>>

\* input_problem() begins to build the problem once the two dimensions are
\* read.
CliInputTrace(a) ==
    IF int(a.num_vars).ok /\ int(a.num_constraints).ok THEN <<"normalize">> ELSE <<>>

\* solve(): one call of linprog and, when it returns, display_results(result).
CliSolveTrace(r) ==
    IF r.status = "raised" THEN <<"linprog">> ELSE <<"linprog", "translate">>

\* choice '1' with answers a: input_problem() runs to its end, or a
\* ValueError leaves it and, nothing catching it, main.
CliInput(a) ==
    /\ InCli
    /\ problem' = input_problem(problem, a).problem
    /\ IF input_problem(problem, a).raised
       THEN cliPc' = "crashed" /\ entered' = NoAnswers
       ELSE cliPc' = "menu" /\ entered' = a
    /\ Silent
    /\ trace' = CliInputTrace(a)
    /\ UNCHANGED <<launcherPc, launched, scriptPc, saved, answers, guiVars>>

CliChoice1 ==
    \/ CliInput(answers)
    \/ \E place \in Places : CliInput(Spoilt(answers, place))

\* choice '2' with a problem: solve()
CliChoice2Solve ==
    /\ InCli
    /\ Truthy(problem)
    /\ IF SolveKeys \subseteq problem.keys
       THEN /\ linprogCall' = CliCall(problem)
            /\ \E r \in linprog(CliCall(problem)) :
                   /\ result' = r
                   /\ cliOut' = CliSolveOutput(problem, r)
                   /\ trace' = CliSolveTrace(r)
       ELSE /\ linprogCall' = NoCall
            /\ result' = NoResult
            /\ cliOut' = <<ErrorLine("KeyError")>>
            /\ trace' = <<>>
    /\ UNCHANGED <<launcherPc, launched, scriptPc, cliPc, problem, saved, answers, entered, guiVars>>

\* choice '2' without one
CliChoice2Nothing ==
    /\ InCli
    /\ ~Truthy(problem)
    /\ linprogCall' = NoCall
    /\ result' = NoResult
    /\ trace' = <<>>
    /\ cliOut' = <<Line("No problem defined. Please input a problem first.", "", 0, 0)>>
    /\ UNCHANGED <<launcherPc, launched, scriptPc, cliPc, problem, saved, answers, entered, guiVars>>

\* choice '3': save_problem(filename), or "No problem to save."
CliChoice3 ==
    /\ InCli
    /\ \E filename \in SaveNames :
           saved' = IF Truthy(problem) /\ filename = SaveName
                    THEN Json(CliSaveData(problem))
                    ELSE saved
    /\ Quiet
    /\ UNCHANGED <<launcherPc, launched, scriptPc, cliPc, problem, answers, entered, guiVars>>

\* choice '4': load_problem(filename)
CliChoice4 ==
    /\ InCli
    /\ \E filename \in LoadNames :
           IF FileAt(filename).kind = "json"
           THEN /\ problem' = CliLoadData(FileAt(filename).d)
                /\ entered' = NoAnswers
           ELSE UNCHANGED <<problem, entered>>
    /\ Quiet
    /\ UNCHANGED <<launcherPc, launched, scriptPc, cliPc, saved, answers, guiVars>>

QuickCall ==
    [called |-> TRUE, by |-> "quick_example", c |-> <<-300, -200>>,
     A_ub |-> pylist(<< <<200, 100>>, <<100, 100>>, <<100, 0>> >>),
     b_ub |-> pylist(<<10000, 8000, 4000>>),
     A_eq |-> NoneVal, b_eq |-> NoneVal, bounds |-> Bounds(2)]

\* choice '5': quick_example().  Nothing catches what linprog raises, and a
\* failed result has no x to print.
CliChoice5 ==
    /\ InCli
    /\ linprogCall' = QuickCall
    /\ \E r \in linprog2(QuickCall) :
           /\ result' = r
           /\ trace' = CliSolveTrace(r)
           /\ IF r.status = "returned" /\ r.success
              THEN /\ cliOut' = <<Line("Status", r.message, 0, 0),
                                  Line("Maximum profit", "", -r.fun, 0),
                                  Line("x", "", r.x[1], 1), Line("x", "", r.x[2], 2)>>
                   /\ cliPc' = cliPc
              ELSE /\ cliOut' = <<>>
                   /\ cliPc' = "crashed"
    /\ UNCHANGED <<launcherPc, launched, scriptPc, problem, saved, answers, entered, guiVars>>

\* choice '6'
CliChoice6 ==
    /\ InCli
    /\ cliPc' = "exited"
    /\ Quiet
    /\ UNCHANGED <<launcherPc, launched, scriptPc, problem, saved, answers, entered, guiVars>>

\* any other choice
CliInvalidChoice ==
    /\ InCli
    /\ Quiet
    /\ UNCHANGED <<launcherPc, launched, scriptPc, cliPc, problem, saved, answers, entered, guiVars>>

NextCli ==
    \/ CliChoice1
    \/ CliChoice2Solve
    \/ CliChoice2Nothing
    \/ CliChoice3
    \/ CliChoice4
    \/ CliChoice5
    \/ CliChoice6
    \/ CliInvalidChoice

-----------------------------------------------------------------------------
(* LinearProgrammingInterface: the form and update_problem_size            *)

\* The spinboxes' ranges: from_=1, to=10 and from_=0, to=20.
VariablesFrom == 1
VariablesTo == 10
ConstraintsFrom == 0
ConstraintsTo == 20

\* entry.insert(0, "1"), bound_entry.insert(0, "0"), type_combo.set("<=")
One == Num(100, "plain")
Zero == Num(0, "plain")

\* The widgets update_problem_size builds for n variables and m constraints.
DefaultForm(n, m) ==
    [obj_entries |-> [j \in 1..n |-> One],
     constraint_entries |-> [i \in 1..m |-> [j \in 1..n |-> One]],
     bound_entries |-> [i \in 1..m |-> Zero],
     type_combos |-> [i \in 1..m |-> LE]]

\* update_problem_size(): every widget is destroyed and built anew from the
\* two IntVars, which hold n and m.
update_problem_size(n, m) ==
    /\ obj_entries' = DefaultForm(n, m).obj_entries
    /\ constraint_entries' = DefaultForm(n, m).constraint_entries
    /\ bound_entries' = DefaultForm(n, m).bound_entries
    /\ type_combos' = DefaultForm(n, m).type_combos

NotSolvedYet == [text |-> "Not solved yet", num |-> 0]
NoDialog == [kind |-> "none", about |-> ""]
Dialog(kind, about) == [kind |-> kind, about |-> about]

-----------------------------------------------------------------------------
(* LinearProgrammingInterface.solve_problem and display_results            *)

\* The objective negated, whatever the sense.
GuiObjectiveNegated(c, sense) == Negate(c)

\* if self.objective_type.get() == "maximize": c = [-x for x in c]
GuiObjective(c, sense) == IF sense = "maximize" THEN Negate(c) ELSE c

\* Every constraint that is not ">=" appended as an inequality.
GuiAppendNoEquality(acc, row, constraint_type, bound) ==
    IF constraint_type = GE
    THEN [acc EXCEPT !.A_ub = Append(@, Negate(row)), !.b_ub = Append(@, -bound)]
    ELSE [acc EXCEPT !.A_ub = Append(@, row), !.b_ub = Append(@, bound)]

\* The if/elif/else on the combobox's text, taken as it is.
GuiAppend(acc, row, constraint_type, bound) ==
    IF constraint_type = LE
    THEN [acc EXCEPT !.A_ub = Append(@, row), !.b_ub = Append(@, bound)]
    ELSE IF constraint_type = GE
    THEN [acc EXCEPT !.A_ub = Append(@, Negate(row)), !.b_ub = Append(@, -bound)]
    ELSE [acc EXCEPT !.A_eq = Append(@, row), !.b_eq = Append(@, bound)]

\* A form as a value: the two IntVars, the StringVar and the widgets' texts.
Form(nv, nc, sense, obj, rows, bounds, types) ==
    [num_variables |-> nv, num_constraints |-> nc, objective_type |-> sense,
     obj_entries |-> obj, constraint_entries |-> rows,
     bound_entries |-> bounds, type_combos |-> types]

\* Row i of the form read as solve_problem reads it: num_variables entries
\* of the row, then the bound, then the type.  An IndexError or a ValueError
\* ends the reading.
GuiRowReadable(f, i) ==
    /\ i <= Len(f.constraint_entries)
    /\ f.num_variables <= Len(f.constraint_entries[i])
    /\ \A j \in 1..f.num_variables : float(f.constraint_entries[i][j]).ok
    /\ i <= Len(f.bound_entries)
    /\ float(f.bound_entries[i]).ok
    /\ i <= Len(f.type_combos)

GuiRow(f, i) == [j \in 1..f.num_variables |-> float(f.constraint_entries[i][j]).v]

\* for i in range(self.num_constraints.get()): ...
RECURSIVE GuiConstraints(_, _, _)
GuiConstraints(f, i, acc) ==
    IF i > f.num_constraints THEN acc
    ELSE IF ~GuiRowReadable(f, i) THEN [acc EXCEPT !.ok = FALSE]
    ELSE GuiConstraints(f, i + 1,
            GuiAppend(acc, GuiRow(f, i), f.type_combos[i],
                      float(f.bound_entries[i]).v))

GuiCallPartial(f) ==
    [called |-> TRUE, by |-> "gui",
     c |-> GuiObjective(Floats(SelectSeq(f.obj_entries, LAMBDA t : float(t).ok)),
                        f.objective_type),
     A_ub |-> NoneVal, b_ub |-> NoneVal, A_eq |-> NoneVal, b_eq |-> NoneVal,
     bounds |-> Bounds(Len(SelectSeq(f.obj_entries, LAMBDA t : float(t).ok)))]

\* The arguments solve_problem hands to linprog for the form f, or the
\* exception that keeps it from the call.
GuiCall(f) ==
    IF ~AllFloat(f.obj_entries) THEN NoCall
    ELSE LET c == GuiObjective(Floats(f.obj_entries), f.objective_type)
             rows == GuiConstraints(f, 1, NoRows)
         IN  IF ~rows.ok THEN NoCall
             ELSE [called |-> TRUE, by |-> "gui", c |-> c,
                   A_ub |-> ArrayOrNone(rows.A_ub), b_ub |-> ArrayOrNone(rows.b_ub),
                   A_eq |-> ArrayOrNone(rows.A_eq), b_eq |-> ArrayOrNone(rows.b_eq),
                   bounds |-> Bounds(Len(c))]

\* optimal_value = result.fun; negated if objective_type is "maximize"
GuiOptimalValue(sense, r) == IF sense = "maximize" THEN -r.fun ELSE r.fun

\* The text display_results puts into results_text.
GuiResultLines(sense, r) ==
    <<Line("LINEAR PROGRAMMING SOLUTION", "", 0, 0)>>
    \o (IF r.success
        THEN <<Line("Status", r.message, 0, 0),
               Line("Value", sense, GuiOptimalValue(sense, r), 0)>>
             \o [i \in 1..Len(r.x) |-> Line("x", "", r.x[i], i)]
             \o <<Line("Number of iterations", "", r.nit, 0)>>
        ELSE <<Line("Status", r.message, 0, 0),
               Line("The problem could not be solved.", "", 0, 0)>>)

\* The label given a number whatever the result.
GuiValueLabelAlways(sense, r) ==
    [text |-> "Optimal Value", num |-> GuiOptimalValue(sense, r)]

\* The text display_results gives optimal_value_label.
GuiValueLabel(sense, r) ==
    IF r.success THEN [text |-> "Optimal Value", num |-> GuiOptimalValue(sense, r)]
    ELSE [text |-> "No solution", num |-> 0]

CurrentForm ==
    Form(num_variables, num_constraints, objective_type, obj_entries,
         constraint_entries, bound_entries, type_combos)

InGui == guiPc = "running"

GuiSolveTraceRetried(call, r) ==
    IF ~call.called THEN <<"normalize">>
    ELSE IF r.status = "raised" THEN <<"normalize", "linprog">>
    ELSE IF ~r.success THEN <<"normalize", "linprog", "linprog", "translate">>
    ELSE <<"normalize", "linprog", "translate">>

\* solve_problem(): the arrays are built from the form; when that has not
\* raised, one call of linprog; when that has returned, display_results.
GuiSolveTrace(call, r) ==
    IF ~call.called THEN <<"normalize">>
    ELSE IF r.status = "raised" THEN <<"normalize", "linprog">>
    ELSE <<"normalize", "linprog", "translate">>

\* The "Solve Problem" button: solve_problem()
GuiSolveProblem ==
    /\ InGui
    /\ linprogCall' = GuiCall(CurrentForm)
    /\ IF ~GuiCall(CurrentForm).called
       THEN /\ result' = NoResult
            /\ trace' = GuiSolveTrace(GuiCall(CurrentForm), NoResult)
            /\ dialog' = Dialog("error", "solving")
            /\ UNCHANGED shownVars
       ELSE \E r \in linprog(GuiCall(CurrentForm)) :
               /\ result' = r
               /\ trace' = GuiSolveTrace(GuiCall(CurrentForm), r)
               /\ IF r.status = "raised"
                  THEN /\ dialog' = Dialog("error", "solving")
                       /\ UNCHANGED shownVars
                  ELSE /\ dialog' = NoDialog
                       /\ results_text' = GuiResultLines(objective_type, r)
                       /\ optimal_value_label' = GuiValueLabel(objective_type, r)
                       /\ status_label' = r.message
    /\ UNCHANGED <<launcherVars, scriptPc, cliVars, answers, cliOut, guiPc, formVars, guiDir>>

GuiQuiet ==
    linprogCall' = NoCall /\ result' = NoResult /\ trace' = <<>> /\ dialog' = NoDialog

\* The "Clear All" button: clear_problem()
GuiClearProblem ==
    /\ InGui
    /\ obj_entries' = [j \in DOMAIN obj_entries |-> One]
    /\ constraint_entries' =
           [i \in DOMAIN constraint_entries |->
               [j \in DOMAIN constraint_entries[i] |-> One]]
    /\ bound_entries' =
           [i \in DOMAIN bound_entries |->
               IF i <= Len(constraint_entries) THEN Zero ELSE bound_entries[i]]
    /\ type_combos' =
           [i \in DOMAIN type_combos |->
               IF i <= Len(constraint_entries) THEN LE ELSE type_combos[i]]
    /\ results_text' = <<>>
    /\ optimal_value_label' = NotSolvedYet
    /\ status_label' = "Not solved yet"
    /\ GuiQuiet
    /\ UNCHANGED <<launcherVars, scriptPc, cliVars, answers, cliOut, guiPc, num_variables,
                   num_constraints, objective_type, guiDir>>

-----------------------------------------------------------------------------
(* The user at the form                                                    *)

Min(a, b) == IF a < b THEN a ELSE b

\* An arrow of the "Number of Variables" spinbox: the IntVar moves by one
\* within the spinbox's range and update_problem_size is called.
GuiSpinVariables ==
    /\ InGui
    /\ \E d \in {-1, 1} :
           /\ num_variables + d >= VariablesFrom
           /\ num_variables + d <= Min(VariablesTo, MaxVars)
           /\ num_variables' = num_variables + d
           /\ update_problem_size(num_variables + d, num_constraints)
    /\ GuiQuiet
    /\ UNCHANGED <<launcherVars, scriptPc, cliVars, answers, cliOut, guiPc,
                   num_constraints, objective_type, shownVars, guiDir>>

\* An arrow of the "Number of Constraints" spinbox.
GuiSpinConstraints ==
    /\ InGui
    /\ \E d \in {-1, 1} :
           /\ num_constraints + d >= ConstraintsFrom
           /\ num_constraints + d <= Min(ConstraintsTo, MaxCons)
           /\ num_constraints' = num_constraints + d
           /\ update_problem_size(num_variables, num_constraints + d)
    /\ GuiQuiet
    /\ UNCHANGED <<launcherVars, scriptPc, cliVars, answers, cliOut, guiPc,
                   num_variables, objective_type, shownVars, guiDir>>

\* The form has the widgets the user's problem needs.
FormFits ==
    /\ Len(obj_entries) = Len(answers.obj)
    /\ Len(constraint_entries) = Len(answers.cons)
    /\ Len(bound_entries) = Len(answers.cons)
    /\ Len(type_combos) = Len(answers.cons)
    /\ \A i \in DOMAIN constraint_entries :
           Len(constraint_entries[i]) = Len(answers.obj)

\* The user picks the radio button and types the problem into the entries
\* and comboboxes.  No handler of the program runs.
GuiType ==
    /\ InGui
    /\ FormFits
    /\ objective_type' = answers.sense
    /\ obj_entries' = answers.obj
    /\ constraint_entries' = [i \in DOMAIN answers.cons |-> answers.cons[i].coeffs]
    /\ bound_entries' = [i \in DOMAIN answers.cons |-> answers.cons[i].bound]
    /\ type_combos' = [i \in DOMAIN answers.cons |-> answers.cons[i].type]
    /\ GuiQuiet
    /\ UNCHANGED <<launcherVars, scriptPc, cliVars, answers, cliOut, guiPc,
                   num_variables, num_constraints, shownVars, guiDir>>

\* The form holds the user's problem as typed.
FormTyped ==
    /\ obj_entries = answers.obj
    /\ constraint_entries = [i \in DOMAIN answers.cons |-> answers.cons[i].coeffs]
    /\ bound_entries = [i \in DOMAIN answers.cons |-> answers.cons[i].bound]
    /\ type_combos = [i \in DOMAIN answers.cons |-> answers.cons[i].type]

\* Having typed the problem, the user empties the last objective entry, or
\* types a word into the first bound entry.
GuiTypeJunk ==
    /\ InGui
    /\ FormTyped
    /\ \/ /\ obj_entries # <<>>
          /\ obj_entries' = [obj_entries EXCEPT ![Len(obj_entries)] = Junk("empty")]
          /\ UNCHANGED bound_entries
       \/ /\ bound_entries # <<>>
          /\ bound_entries' = [bound_entries EXCEPT ![1] = Junk("abc")]
          /\ UNCHANGED obj_entries
    /\ GuiQuiet
    /\ UNCHANGED <<launcherVars, scriptPc, cliVars, answers, cliOut, guiPc,
                   num_variables, num_constraints, objective_type,
                   constraint_entries, type_combos, shownVars, guiDir>>

-----------------------------------------------------------------------------
(* The four examples                                                       *)

\* str(coeff) of a number of the source, in hundredths
Str(v) == Num(v, "plain")

Constraint(coeffs, type, bound) == [coeffs |-> coeffs, type |-> type, bound |-> bound]

ProductionExample ==
    [nv |-> 2, nc |-> 3, sense |-> "maximize", obj |-> <<Str(300), Str(200)>>,
     cons |-> <<Constraint(<<Str(200), Str(100)>>, LE, Str(10000)),
                Constraint(<<Str(100), Str(100)>>, LE, Str(8000)),
                Constraint(<<Str(100), Str(0)>>, LE, Str(4000))>>]

DietExample ==
    [nv |-> 2, nc |-> 2, sense |-> "minimize", obj |-> <<Str(50), Str(30)>>,
     cons |-> <<Constraint(<<Str(200), Str(100)>>, GE, Str(1000)),
                Constraint(<<Str(100), Str(300)>>, GE, Str(1200))>>]

TransportationExample ==
    [nv |-> 3, nc |-> 2, sense |-> "minimize",
     obj |-> <<Str(200), Str(300), Str(100)>>,
     cons |-> <<Constraint(<<Str(100), Str(100), Str(100)>>, GE, Str(10000)),
                Constraint(<<Str(200), Str(100), Str(300)>>, LE, Str(20000))>>]

InvestmentExample ==
    [nv |-> 2, nc |-> 3, sense |-> "maximize", obj |-> <<Str(8), Str(12)>>,
     cons |-> <<Constraint(<<Str(100), Str(100)>>, LE, Str(1000000)),
                Constraint(<<Str(100), Str(0)>>, GE, Str(300000)),
                Constraint(<<Str(0), Str(100)>>, LE, Str(500000))>>]

\* What each load_*_example does: set the three variables, rebuild the
\* form, then write the example's texts into it.
LoadExample(ex) ==
    /\ num_variables' = ex.nv
    /\ num_constraints' = ex.nc
    /\ objective_type' = ex.sense
    /\ obj_entries' = ex.obj
    /\ constraint_entries' = [i \in 1..ex.nc |-> ex.cons[i].coeffs]
    /\ type_combos' = [i \in 1..ex.nc |-> ex.cons[i].type]
    /\ bound_entries' = [i \in 1..ex.nc |-> ex.cons[i].bound]
    /\ GuiQuiet
    /\ UNCHANGED <<launcherVars, scriptPc, cliVars, answers, cliOut, guiPc, shownVars, guiDir>>

load_production_example == InGui /\ LoadExample(ProductionExample)
load_diet_example == InGui /\ LoadExample(DietExample)
load_transportation_example == InGui /\ LoadExample(TransportationExample)
load_investment_example == InGui /\ LoadExample(InvestmentExample)

-----------------------------------------------------------------------------
(* LinearProgrammingInterface.save_problem and load_problem                *)

GuiKeys == {"num_variables", "num_constraints", "objective_type",
            "objective_coeffs", "constraints"}

GuiAbsent ==
    [kind |-> "absent", keys |-> {}, num_variables |-> 0, num_constraints |-> 0,
     objective_type |-> "", objective_coeffs |-> <<>>, constraints |-> <<>>]

GuiGarbage == [GuiAbsent EXCEPT !.kind = "garbage"]

\* save_problem reads row i of the form for every i below num_constraints.
GuiSavable(f) ==
    /\ f.num_constraints <= Len(f.constraint_entries)
    /\ f.num_constraints <= Len(f.type_combos)
    /\ f.num_constraints <= Len(f.bound_entries)

\* problem_data, as json.dump writes it
GuiSaveData(f) ==
    [kind |-> "json", keys |-> GuiKeys,
     num_variables |-> f.num_variables,
     num_constraints |-> f.num_constraints,
     objective_type |-> f.objective_type,
     objective_coeffs |-> f.obj_entries,
     constraints |-> [i \in 1..f.num_constraints |->
                         Constraint(f.constraint_entries[i], f.type_combos[i],
                                    f.bound_entries[i])]]

\* f"lp_problem_{num_variables}vars_{num_constraints}cons.json", as the pair
\* of its two numbers; <<0, 0>> stands for a file named by hand,
\* lp_problem_old.json.
GuiFileName(f) == <<f.num_variables, f.num_constraints>>
OldName == <<0, 0>>
GuiNames == (0..3 \cup 0..MaxVars) \X (0..3 \cup 0..MaxCons)

\* json_files: the names os.listdir finds
GuiListed(dir) == {name \in DOMAIN dir : dir[name].kind # "absent"}

\* The first k texts written over the first k entries.
Overwrite(entries, texts) ==
    [j \in DOMAIN entries |-> IF j <= Len(texts) THEN texts[j] ELSE entries[j]]

\* The loop over problem_data["constraints"] from row i on: each row's
\* coefficients, then its type, then its bound; an IndexError ends it.
RECURSIVE GuiLoadConstraints(_, _, _)
GuiLoadConstraints(f, cons, i) ==
    IF i > Len(cons) THEN [raised |-> FALSE, form |-> f]
    ELSE IF i > Len(f.constraint_entries) THEN [raised |-> TRUE, form |-> f]
    ELSE LET g == [f EXCEPT !.constraint_entries[i] = Overwrite(@, cons[i].coeffs)]
         IN  IF Len(cons[i].coeffs) > Len(f.constraint_entries[i])
             THEN [raised |-> TRUE, form |-> g]
             ELSE GuiLoadConstraints(
                      [g EXCEPT !.type_combos[i] = cons[i].type,
                                !.bound_entries[i] = cons[i].bound],
                      cons, i + 1)

\* The form after update_problem_size with the document's three values.
GuiLoadRebuilt(data) ==
    Form(data.num_variables, data.num_constraints, data.objective_type,
         DefaultForm(data.num_variables, data.num_constraints).obj_entries,
         DefaultForm(data.num_variables, data.num_constraints).constraint_entries,
         DefaultForm(data.num_variables, data.num_constraints).bound_entries,
         DefaultForm(data.num_variables, data.num_constraints).type_combos)

\* load_problem on the form f and the file's content: the form it leaves and
\* whether an exception ended it.
GuiLoad(f, data) ==
    IF data.kind # "json" \/ "num_variables" \notin data.keys
    THEN [raised |-> TRUE, form |-> f]
    ELSE IF "num_constraints" \notin data.keys
    THEN [raised |-> TRUE, form |-> [f EXCEPT !.num_variables = data.num_variables]]
    ELSE IF "objective_type" \notin data.keys
    THEN [raised |-> TRUE,
          form |-> [f EXCEPT !.num_variables = data.num_variables,
                             !.num_constraints = data.num_constraints]]
    ELSE IF "objective_coeffs" \notin data.keys
    THEN [raised |-> TRUE, form |-> GuiLoadRebuilt(data)]
    ELSE LET g == [GuiLoadRebuilt(data) EXCEPT
                      !.obj_entries = Overwrite(@, data.objective_coeffs)]
         IN  IF Len(data.objective_coeffs) > data.num_variables
                \/ "constraints" \notin data.keys
             THEN [raised |-> TRUE, form |-> g]
             ELSE GuiLoadConstraints(g, data.constraints, 1)

SetForm(f) ==
    /\ num_variables' = f.num_variables
    /\ num_constraints' = f.num_constraints
    /\ objective_type' = f.objective_type
    /\ obj_entries' = f.obj_entries
    /\ constraint_entries' = f.constraint_entries
    /\ bound_entries' = f.bound_entries
    /\ type_combos' = f.type_combos

\* The "Save Problem" button
GuiSaveProblem ==
    /\ InGui
    /\ IF GuiSavable(CurrentForm)
       THEN /\ guiDir' = [guiDir EXCEPT ![GuiFileName(CurrentForm)] =
                                            GuiSaveData(CurrentForm)]
            /\ dialog' = Dialog("info", "saved")
       ELSE /\ guiDir' = guiDir
            /\ dialog' = Dialog("error", "saving")
    /\ linprogCall' = NoCall
    /\ result' = NoResult
    /\ trace' = <<>>
    /\ UNCHANGED <<launcherVars, scriptPc, cliVars, answers, cliOut, guiPc, formVars, shownVars>>

\* The "Load Problem" button: the first file os.listdir names, whichever
\* that is.
GuiLoadProblem ==
    /\ InGui
    /\ IF GuiListed(guiDir) = {}
       THEN /\ dialog' = Dialog("warning", "No saved problems found")
            /\ UNCHANGED formVars
       ELSE \E filename \in GuiListed(guiDir) :
               /\ SetForm(GuiLoad(CurrentForm, guiDir[filename]).form)
               /\ dialog' = IF GuiLoad(CurrentForm, guiDir[filename]).raised
                            THEN Dialog("error", "loading")
                            ELSE Dialog("info", "loaded")
    /\ linprogCall' = NoCall
    /\ result' = NoResult
    /\ trace' = <<>>
    /\ UNCHANGED <<launcherVars, scriptPc, cliVars, answers, cliOut, guiPc, shownVars, guiDir>>

\* The window is closed: mainloop() returns and the process ends.
GuiClose ==
    /\ InGui
    /\ guiPc' = "closed"
    /\ GuiQuiet
    /\ UNCHANGED <<launcherVars, scriptPc, cliVars, answers, cliOut, formVars, shownVars, guiDir>>

-----------------------------------------------------------------------------
(* run_lp_solver.main                                                      *)

\* check_dependencies() returns True or, a package missing, False.
LauncherCheck ==
    /\ launcherPc = "start"
    /\ \E ok \in BOOLEAN : launcherPc' = IF ok THEN "menu" ELSE "done"
    /\ UNCHANGED <<launched, scriptPc, cliVars, answers, solverVars, cliOut, guiVars>>

\* choice '1': run_gui() starts linear_programming_interface.py and waits.
LauncherChoice1 ==
    /\ launcherPc = "menu"
    /\ launcherPc' = "gui"
    /\ launched' = Append(launched, "gui")
    /\ guiPc' = "running"
    /\ UNCHANGED <<scriptPc, cliVars, answers, solverVars, cliOut, formVars, shownVars,
                   dialog, guiDir>>

\* choice '2': run_cli() starts lp_solver_cli.py and waits.
LauncherChoice2 ==
    /\ launcherPc = "menu"
    /\ launcherPc' = "cli"
    /\ launched' = Append(launched, "cli")
    /\ cliPc' = "menu"
    /\ UNCHANGED <<scriptPc, problem, saved, entered, answers, solverVars, cliOut, guiVars>>

LauncherReturnsToMenu ==
    /\ \/ launcherPc = "cli" /\ cliPc \in {"exited", "crashed"}
       \/ launcherPc = "gui" /\ guiPc = "closed"
    /\ launcherPc' = "menu"
    /\ UNCHANGED <<launched, scriptPc, cliVars, answers, solverVars, cliOut, guiVars>>

\* The started process has ended: subprocess.run returns and main breaks.
LauncherReturns ==
    /\ \/ launcherPc = "cli" /\ cliPc \in {"exited", "crashed"}
       \/ launcherPc = "gui" /\ guiPc = "closed"
    /\ launcherPc' = "done"
    /\ UNCHANGED <<launched, scriptPc, cliVars, answers, solverVars, cliOut, guiVars>>

\* choice '3' (the README is printed, or said to be missing) and any choice
\* that is none of 1-4: the loop prompts again.
LauncherPromptAgain ==
    /\ launcherPc = "menu"
    /\ UNCHANGED vars

\* choice '4'
LauncherChoice4 ==
    /\ launcherPc = "menu"
    /\ launcherPc' = "done"
    /\ UNCHANGED <<launched, scriptPc, cliVars, answers, solverVars, cliOut, guiVars>>

NextLauncher ==
    \/ LauncherCheck
    \/ LauncherChoice1
    \/ LauncherChoice2
    \/ LauncherReturns
    \/ LauncherPromptAgain
    \/ LauncherChoice4

-----------------------------------------------------------------------------
(* test_solver.py and demo.py: scripts that solve problems written out in  *)
(* their source and print what the solver returns.                         *)

ScriptCall(by, c, A_ub, b_ub) ==
    [called |-> TRUE, by |-> by, c |-> c, A_ub |-> pylist(A_ub), b_ub |-> pylist(b_ub),
     A_eq |-> NoneVal, b_eq |-> NoneVal, bounds |-> Bounds(Len(c))]

\* c = [-3, -2]; A_ub = [[2, 1], [1, 1], [1, 0]]; b_ub = [100, 80, 40]
ProductionCall(by) ==
    ScriptCall(by, <<-300, -200>>, << <<200, 100>>, <<100, 100>>, <<100, 0>> >>,
               <<10000, 8000, 4000>>)

DietCallUnturned(by) ==
    ScriptCall(by, <<50, 30>>, << <<200, 100>>, <<100, 300>> >>, <<1000, 1200>>)

\* c = [0.5, 0.3]; A_ub = [[-2, -1], [-1, -3]]; b_ub = [-10, -12]
DietCall(by) ==
    ScriptCall(by, <<50, 30>>, << <<-200, -100>>, <<-100, -300>> >>, <<-1000, -1200>>)

\* c = [2, 3, 1]; A_ub = [[-1, -1, -1], [2, 1, 3]]; b_ub = [-100, 200]
TransportationCall(by) ==
    ScriptCall(by, <<200, 300, 100>>,
               << <<-100, -100, -100>>, <<200, 100, 300>> >>, <<-10000, 20000>>)

\* c = [-0.08, -0.12]; A_ub = [[1, 1], [-1, 0], [0, 1]]; b_ub = [10000, -3000, 5000]
InvestmentCall(by) ==
    ScriptCall(by, <<-8, -12>>, << <<100, 100>>, <<-100, 0>>, <<0, 100>> >>,
               <<1000000, -300000, 500000>>)

\* f"{v:.0f}": v to the nearest whole number, the half to the even one.
Whole(v) ==
    LET low == (v \div 100) * 100
        rest == v - low
    IN  IF rest < 50 \/ (rest = 50 /\ (v \div 100) % 2 = 0) THEN low ELSE low + 100

\* Where a script goes on after the call: its result was a success, a
\* failure, or linprog raised.
After(r, next, failed, raised) ==
    IF r.status = "raised" THEN raised ELSE IF r.success THEN next ELSE failed

\* One call of linprog by a script, with what it prints about the result.
ScriptStep(call, r, lines, pc) ==
    /\ linprogCall' = call
    /\ result' = r
    /\ trace' = CliSolveTrace(r)
    /\ cliOut' = lines
    /\ scriptPc' = pc
    /\ UNCHANGED <<launcherVars, cliVars, answers, guiVars>>

\* test_solver.test_imports(): whether numpy, scipy and tkinter are there.
test_imports ==
    /\ scriptPc = "test_imports"
    /\ \E imports_ok \in BOOLEAN :
           scriptPc' = IF imports_ok THEN "test_basic_functionality" ELSE "done"
    /\ Quiet
    /\ UNCHANGED <<launcherVars, cliVars, answers, guiVars>>

TestBasicLines(r) ==
    IF r.status = "raised" THEN <<ErrorLine(r.message)>>
    ELSE IF r.success
    THEN <<Line("Value", "Optimal value", -r.fun, 0),
           Line("x", "", r.x[1], 1), Line("x", "", r.x[2], 2)>>
    ELSE <<Line("Status", r.message, 0, 0)>>

\* test_solver.test_basic_functionality(); main goes on to the examples
\* when it returns True.
test_basic_functionality ==
    /\ scriptPc = "test_basic_functionality"
    /\ \E r \in linprog2(ProductionCall("test_basic_functionality")) :
           ScriptStep(ProductionCall("test_basic_functionality"), r, TestBasicLines(r),
                      After(r, "run_example_problems", "done", "done"))

TestExampleLines(r) ==
    IF r.status = "raised" THEN <<ErrorLine(r.message)>>
    ELSE IF r.success THEN <<Line("Value", "Optimal value", r.fun, 0)>>
    ELSE <<Line("Status", r.message, 0, 0)>>

\* test_solver.run_example_problems(), the 'Diet Problem'
RunExampleDiet ==
    /\ scriptPc = "run_example_problems"
    /\ \E r \in linprog2(DietCall("run_example_problems")) :
           ScriptStep(DietCall("run_example_problems"), r, TestExampleLines(r),
                      After(r, "run_example_problems 2", "run_example_problems 2", "run_example_problems 2"))

\* test_solver.run_example_problems(), the 'Transportation Problem'
RunExampleTransportation ==
    /\ scriptPc = "run_example_problems 2"
    /\ \E r \in linprog(TransportationCall("run_example_problems")) :
           ScriptStep(TransportationCall("run_example_problems"), r, TestExampleLines(r),
                      After(r, "done", "done", "done"))

DemoProductionLines(r) ==
    IF r.status = "raised" \/ ~r.success THEN <<>>
    ELSE <<Line("x", "", Whole(r.x[1]), 1), Line("x", "", Whole(r.x[2]), 2),
           Line("Value", "Maximum profit", -r.fun, 0)>>

\* demo.demo_production_problem()
demo_production_problem ==
    /\ scriptPc = "demo_production_problem"
    /\ \E r \in linprog2(ProductionCall("demo_production_problem")) :
           ScriptStep(ProductionCall("demo_production_problem"), r, DemoProductionLines(r),
                      After(r, "demo_diet_problem", "demo_diet_problem", "crashed"))

DemoDietLines(r) ==
    IF r.status = "raised" \/ ~r.success THEN <<>>
    ELSE <<Line("x", "", r.x[1], 1), Line("x", "", r.x[2], 2),
           Line("Value", "Minimum cost", r.fun, 0)>>

\* demo.demo_diet_problem()
demo_diet_problem ==
    /\ scriptPc = "demo_diet_problem"
    /\ \E r \in linprog2(DietCall("demo_diet_problem")) :
           ScriptStep(DietCall("demo_diet_problem"), r, DemoDietLines(r),
                      After(r, "demo_investment_problem", "demo_investment_problem", "crashed"))

DemoInvestmentLines(r) ==
    IF r.status = "raised" \/ ~r.success THEN <<>>
    ELSE <<Line("x", "", r.x[1], 1), Line("x", "", r.x[2], 2),
           Line("Value", "Expected annual return", -r.fun, 0)>>

\* demo.demo_investment_problem()
demo_investment_problem ==
    /\ scriptPc = "demo_investment_problem"
    /\ \E r \in linprog2(InvestmentCall("demo_investment_problem")) :
           ScriptStep(InvestmentCall("demo_investment_problem"), r, DemoInvestmentLines(r),
                      After(r, "done", "done", "crashed"))

\* test_solver.main
NextTest ==
    \/ test_imports
    \/ test_basic_functionality
    \/ RunExampleDiet
    \/ RunExampleTransportation

\* demo.main
NextDemo ==
    \/ demo_production_problem
    \/ demo_diet_problem
    \/ demo_investment_problem

-----------------------------------------------------------------------------
(* The specifications                                                      *)

EmptyDir == [name \in GuiNames |-> GuiAbsent]

\* The state the two programs are constructed in; the user has a problem in
\* mind.
Constructed ==
    /\ cliPc = "off"
    /\ problem = EmptyDict
    /\ saved = Absent
    /\ entered = NoAnswers
    /\ linprogCall = NoCall
    /\ result = NoResult
    /\ trace = <<>>
    /\ cliOut = <<>>
    /\ num_variables = 2
    /\ num_constraints = 2
    /\ objective_type = "maximize"
    /\ obj_entries = DefaultForm(2, 2).obj_entries
    /\ constraint_entries = DefaultForm(2, 2).constraint_entries
    /\ bound_entries = DefaultForm(2, 2).bound_entries
    /\ type_combos = DefaultForm(2, 2).type_combos
    /\ results_text = <<>>
    /\ optimal_value_label = NotSolvedYet
    /\ status_label = "Not solved yet"
    /\ dialog = NoDialog

\* The user starts run_lp_solver.py, test_solver.py or demo.py.
Init ==
    /\ Constructed
    /\ launched = <<>>
    /\ guiPc = "off"
    /\ guiDir = EmptyDir
    /\ \/ /\ launcherPc = "start"
          /\ scriptPc = "off"
          /\ answers \in AllAnswers
       \/ /\ launcherPc = "off"
          /\ scriptPc \in {"test_imports", "demo_production_problem"}
          /\ answers = NoAnswers

\* Filling the form in.
NextGuiEdit ==
    \/ GuiSpinVariables
    \/ GuiSpinConstraints
    \/ GuiType
    \/ load_production_example
    \/ load_diet_example

\* The rest of the window.
NextGuiForm ==
    \/ GuiTypeJunk
    \/ GuiSolveProblem
    \/ GuiClearProblem
    \/ load_transportation_example
    \/ load_investment_example
    \/ GuiClose

\* The launcher, and the interface it starts, in a directory without saved
\* forms.
Next == NextLauncher \/ NextCli \/ NextGuiEdit \/ NextGuiForm \/ NextTest \/ NextDemo

Spec == Init /\ [][Next]_vars

-----------------------------------------------------------------------------
(* Sessions of the interface that save and load the form, in a working     *)
(* directory that may hold files of earlier sessions.                      *)

\* A directory holding the one file.
DirWith(name, data) == [EmptyDir EXCEPT ![name] = data]

\* An earlier session's save of the diet example.
DietDoc ==
    GuiSaveData(Form(DietExample.nv, DietExample.nc, DietExample.sense,
                     DietExample.obj,
                     [i \in 1..DietExample.nc |-> DietExample.cons[i].coeffs],
                     [i \in 1..DietExample.nc |-> DietExample.cons[i].bound],
                     [i \in 1..DietExample.nc |-> DietExample.cons[i].type]))

\* lp_problem_old.json written by hand: without "objective_type"; saying one
\* variable but carrying two coefficients; not JSON at all.
NoTypeDoc ==
    [GuiAbsent EXCEPT !.kind = "json",
                      !.keys = GuiKeys \ {"objective_type"},
                      !.num_variables = 1, !.num_constraints = 1,
                      !.objective_coeffs = <<Str(700)>>,
                      !.constraints = <<Constraint(<<Str(700)>>, GE, Str(700))>>]

LongDoc ==
    [GuiAbsent EXCEPT !.kind = "json", !.keys = GuiKeys,
                      !.num_variables = 1, !.num_constraints = 0,
                      !.objective_type = "minimize",
                      !.objective_coeffs = <<Str(700), Str(900)>>]

InitialDirs ==
    {EmptyDir, DirWith(GuiFileName(DietDoc), DietDoc), DirWith(OldName, NoTypeDoc),
     DirWith(OldName, LongDoc), DirWith(OldName, GuiGarbage)}

\* The problems the user of these sessions may have in mind: two of the
\* widest ones, to be minimized.
GuiWorlds ==
    {AnswersFor("mixed", MaxVars, MaxCons, "minimize", OpsFrom("mixed", k, MaxCons)) :
        k \in 0..1}

\* The session is over when the directory holds MaxFiles files.
MaxFiles == 2

GuiSaveWithin ==
    /\ Cardinality(GuiListed(guiDir)) < MaxFiles
    /\ GuiSaveProblem

InitGui ==
    /\ Constructed
    /\ launcherPc = "gui"
    /\ launched = <<"gui">>
    /\ scriptPc = "off"
    /\ guiPc = "running"
    /\ answers \in GuiWorlds
    /\ guiDir \in InitialDirs

NextGui == NextGuiEdit \/ GuiSaveWithin \/ GuiLoadProblem

SpecGui == InitGui /\ [][NextGui]_vars

-----------------------------------------------------------------------------
(* The sign convention of the objective                                    *)

\* The solver has just been called by the CLI for a problem the user typed
\* in, or by the GUI for the form as it stands.
CliSolving == linprogCall.called /\ linprogCall.by = "cli" /\ entered # NoAnswers
GuiSolving == linprogCall.called /\ linprogCall.by = "gui"

\* The vector c is, entry by entry, sign times the numbers the texts spell.
Scaled(c, texts, sign) ==
    /\ Len(c) = Len(texts)
    /\ \A i \in DOMAIN texts : c[i] = sign * texts[i].val

\* C1: when the user's problem is to be maximized, the vector c handed to
\* the solver is the negation, entry by entry, of the objective coefficients
\* the user gave: c[i] = -objective[i].  In the CLI input_problem stores that
\* vector and solve hands it over; in the GUI solve_problem computes it from
\* the objective entries.
C1_MaximizeNegatesObjective ==
    /\ (entered # NoAnswers /\ entered.sense = "maximize")
           => Scaled(problem.c, entered.obj, -1)
    /\ (CliSolving /\ entered.sense = "maximize")
           => Scaled(linprogCall.c, entered.obj, -1)
    /\ (GuiSolving /\ objective_type = "maximize")
           => Scaled(linprogCall.c, obj_entries, -1)

\* The CLI's solver call for a maximization whose objective, typed as
\* "Maximize" and with padded and exponent numbers, has a non-zero
\* coefficient.
C1_Witness ==
    /\ CliSolving
    /\ entered.sense = "maximize"
    /\ entered.obj_type # MAX
    /\ Len(entered.obj) = MaxVars
    /\ \E i \in DOMAIN entered.obj : entered.obj[i].val # 0

\* C2: when the user's problem is to be minimized, the vector c handed to
\* the solver is exactly the objective coefficients the user gave, with no
\* change of sign, in the CLI and in the GUI.
C2_MinimizeKeepsObjective ==
    /\ (entered # NoAnswers /\ entered.sense = "minimize")
           => Scaled(problem.c, entered.obj, 1)
    /\ (CliSolving /\ entered.sense = "minimize")
           => Scaled(linprogCall.c, entered.obj, 1)
    /\ (GuiSolving /\ objective_type = "minimize")
           => Scaled(linprogCall.c, obj_entries, 1)

\* The GUI's solver call for the user's minimization, typed into the form,
\* with a non-zero coefficient.
C2_Witness ==
    /\ GuiSolving
    /\ objective_type = "minimize"
    /\ FormTyped
    /\ Len(obj_entries) = MaxVars
    /\ \E i \in DOMAIN obj_entries : obj_entries[i].val # 0

-----------------------------------------------------------------------------
(* The normalization of the constraints                                    *)

Values(texts) == [j \in DOMAIN texts |-> texts[j].val]

\* The constraints the user gave, each with the operator the front end makes
\* of its text: the CLI strips the blanks around it, the GUI takes the
\* combobox's text as it stands, so that a padded operator is none of the
\* three there.
CliGiven ==
    [i \in DOMAIN entered.cons |->
        [op |-> entered.cons[i].type.sym,
         a |-> Values(entered.cons[i].coeffs),
         b |-> entered.cons[i].bound.val]]

GuiGiven ==
    [i \in 1..num_constraints |->
        [op |-> IF type_combos[i].pad THEN "padded" ELSE type_combos[i].sym,
         a |-> [j \in 1..num_variables |-> constraint_entries[i][j].val],
         b |-> bound_entries[i].val]]

\* Among the first i constraints, those that are inequalities, and the rest.
Inequalities(given, i) == {k \in 1..i : given[k].op \in {"<=", ">="}}
Others(given, i) == (1..i) \ Inequalities(given, i)

\* Each constraint has put one row and one entry into the arrays m holds:
\* an inequality into A_ub/b_ub, any other into A_eq/b_eq.
OneRowEach(m, given) ==
    /\ Len(Rows(m.A_ub)) = Cardinality(Inequalities(given, Len(given)))
    /\ Len(Rows(m.b_ub)) = Len(Rows(m.A_ub))
    /\ Len(Rows(m.A_eq)) = Cardinality(Others(given, Len(given)))
    /\ Len(Rows(m.b_eq)) = Len(Rows(m.A_eq))

\* Every ">=" constraint stands negated in A_ub/b_ub, at the index of its
\* turn among the inequalities.
GreaterTurned(m, given) ==
    \A i \in DOMAIN given :
        given[i].op = ">=" =>
            LET k == Cardinality(Inequalities(given, i)) IN
            /\ k <= Len(Rows(m.A_ub))
            /\ Rows(m.A_ub)[k] = Negate(given[i].a)
            /\ k <= Len(Rows(m.b_ub))
            /\ Rows(m.b_ub)[k] = -given[i].b

\* Every "=" constraint stands unchanged in A_eq/b_eq, at the index of its
\* turn among the constraints that are no inequalities.
EqualKept(m, given) ==
    \A i \in DOMAIN given :
        given[i].op = "=" =>
            LET k == Cardinality(Others(given, i)) IN
            /\ k <= Len(Rows(m.A_eq))
            /\ Rows(m.A_eq)[k] = given[i].a
            /\ k <= Len(Rows(m.b_eq))
            /\ Rows(m.b_eq)[k] = given[i].b

\* C3: a constraint with operator >=, coefficients a and bound b puts the
\* row -a into A_ub and the entry -b into b_ub at the same index, and
\* nothing into A_eq/b_eq: in what input_problem stores, in what the CLI's
\* solve hands to the solver, and in what the GUI's solve_problem hands to
\* it.
C3_GreaterOrEqualNegated ==
    /\ entered # NoAnswers
           => GreaterTurned(problem, CliGiven) /\ OneRowEach(problem, CliGiven)
    /\ CliSolving
           => GreaterTurned(linprogCall, CliGiven) /\ OneRowEach(linprogCall, CliGiven)
    /\ GuiSolving
           => GreaterTurned(linprogCall, GuiGiven) /\ OneRowEach(linprogCall, GuiGiven)

\* The CLI's solver call for a problem whose second constraint is ">=",
\* typed with blanks around it, after a first that is no inequality: its row
\* is the first of A_ub, and not all zero.
C3_Witness ==
    /\ CliSolving
    /\ Len(entered.cons) >= 2
    /\ entered.cons[2].type = Op(">=", TRUE)
    /\ Inequalities(CliGiven, 2) = {2}
    /\ \E j \in DOMAIN CliGiven[2].a : CliGiven[2].a[j] # 0
    /\ CliGiven[2].b # 0

\* C4: a constraint with operator = puts its coefficients and its bound
\* unchanged into A_eq/b_eq and no row into A_ub/b_ub, in the CLI and in the
\* GUI.
C4_EqualUnchanged ==
    /\ entered # NoAnswers
           => EqualKept(problem, CliGiven) /\ OneRowEach(problem, CliGiven)
    /\ CliSolving
           => EqualKept(linprogCall, CliGiven) /\ OneRowEach(linprogCall, CliGiven)
    /\ GuiSolving
           => EqualKept(linprogCall, GuiGiven) /\ OneRowEach(linprogCall, GuiGiven)

\* The GUI's solver call for a form whose second constraint is "=" after a
\* first that is an inequality: its row is the first of A_eq.
C4_Witness ==
    /\ GuiSolving
    /\ num_constraints >= 2
    /\ GuiGiven[2].op = "="
    /\ Others(GuiGiven, 2) = {2}
    /\ \E j \in DOMAIN GuiGiven[2].a : GuiGiven[2].a[j] # 0

-----------------------------------------------------------------------------
(* What is shown of the solver's result                                    *)

IsValue(l) == l.tag \in {"Value", "Maximum profit"}
IsX(l) == l.tag = "x"
IsStatus(l) == l.tag = "Status"

\* The objective values a text shows, and the variable assignment it shows.
ValuesShown(lines) == [k \in DOMAIN SelectSeq(lines, IsValue) |->
                          SelectSeq(lines, IsValue)[k].num]
XShown(lines) == [k \in DOMAIN SelectSeq(lines, IsX) |-> SelectSeq(lines, IsX)[k].num]
XIndices(lines) == [k \in DOMAIN SelectSeq(lines, IsX) |-> SelectSeq(lines, IsX)[k].idx]
StatusShown(lines) == [k \in DOMAIN SelectSeq(lines, IsStatus) |->
                          SelectSeq(lines, IsStatus)[k].text]

\* The solver has just returned a result to the CLI's solve, to its
\* quick_example, to the GUI's solve_problem.
CliReturned == linprogCall.by = "cli" /\ result.status = "returned"
QuickReturned == linprogCall.by = "quick_example" /\ result.status = "returned"
GuiReturned == linprogCall.by = "gui" /\ result.status = "returned"

\* value is the solver's value turned back to the sense of the problem.
TurnedBack(value, maximize) == value = IF maximize THEN -result.fun ELSE result.fun

\* x1, x2, ... are the solver's x, in its order.
AssignmentAsSolved(lines) ==
    /\ XShown(lines) = result.x
    /\ XIndices(lines) = [k \in DOMAIN result.x |-> k]

\* C5: when the solver reports success, the variable assignment shown is the
\* solver's, unchanged, and the objective value shown is -fun for a
\* maximization and fun otherwise.  The CLI takes the sense from
\* problem['maximize'], which for a typed problem is the user's sense; a
\* loaded file without that key gets no value shown at all.  The GUI takes it
\* from the radio button and shows the value in the text and in the label.
C5_SuccessShown ==
    /\ (CliReturned /\ result.success) =>
           /\ \A k \in DOMAIN ValuesShown(cliOut) :
                  TurnedBack(ValuesShown(cliOut)[k], problem.maximize)
           /\ "maximize" \in problem.keys =>
                  /\ Len(ValuesShown(cliOut)) = 1
                  /\ AssignmentAsSolved(cliOut)
           /\ entered # NoAnswers =>
                  /\ "maximize" \in problem.keys
                  /\ problem.maximize <=> entered.sense = "maximize"
    /\ (QuickReturned /\ result.success) =>
           /\ ValuesShown(cliOut) = <<-result.fun>>
           /\ AssignmentAsSolved(cliOut)
    /\ (GuiReturned /\ result.success) =>
           /\ Len(ValuesShown(results_text)) = 1
           /\ TurnedBack(ValuesShown(results_text)[1], objective_type = "maximize")
           /\ AssignmentAsSolved(results_text)
           /\ optimal_value_label.text = "Optimal Value"
           /\ TurnedBack(optimal_value_label.num, objective_type = "maximize")

\* The CLI shows 410 for the user's maximization, the solver's value being
\* -410.
C5_Witness ==
    /\ CliReturned
    /\ result.success
    /\ entered # NoAnswers
    /\ entered.sense = "maximize"
    /\ result.fun = -41000
    /\ ValuesShown(cliOut) = <<41000>>
    /\ Len(XShown(cliOut)) = MaxVars

\* C6: when the solver reports failure, its message is shown word for word
\* and neither an objective value nor a variable assignment is shown, so no
\* value of zero either: the CLI prints the status and that the problem
\* could not be solved; the GUI writes the same into the text, the message
\* into the status label and "No solution" into the value label.
C6_FailureShown ==
    /\ (CliReturned /\ ~result.success) =>
           /\ StatusShown(cliOut) = <<result.message>>
           /\ ValuesShown(cliOut) = <<>>
           /\ XShown(cliOut) = <<>>
    /\ (GuiReturned /\ ~result.success) =>
           /\ StatusShown(results_text) = <<result.message>>
           /\ ValuesShown(results_text) = <<>>
           /\ XShown(results_text) = <<>>
           /\ status_label = result.message
           /\ optimal_value_label.text = "No solution"

\* The GUI has shown the solver's "infeasible" for a form to be maximized.
C6_Witness ==
    /\ GuiReturned
    /\ ~result.success
    /\ result.message = InfeasibleMessage
    /\ objective_type = "maximize"
    /\ status_label = InfeasibleMessage

-----------------------------------------------------------------------------
(* Malformed problems, files and answers                                   *)

\* Every row of the matrix has as many coefficients as c.
RowsFit(call, matrix) ==
    \A k \in DOMAIN Rows(matrix) : Len(Rows(matrix)[k]) = Len(call.c)

\* C7: a problem in which a constraint has another number of coefficients
\* than the objective is turned away before the solver: whatever the way the
\* problem became the current one, typed in or loaded from a file, no call of
\* the solver carries a row whose length is not that of c.
C7_NoMismatchReachesSolver ==
    linprogCall.called =>
        RowsFit(linprogCall, linprogCall.A_ub) /\ RowsFit(linprogCall, linprogCall.A_eq)

\* The problem the form holds, as save_problem writes it: the number of
\* variables, the sense, the objective coefficients and the constraints in
\* their order.
GuiProblem == GuiSaveData(CurrentForm)

\* A file save_problem has written: the five fields, as many objective
\* coefficients as variables, as many constraints as it says, each with a
\* coefficient per variable.
GuiSavedFile(data) ==
    /\ data.kind = "json"
    /\ data.keys = GuiKeys
    /\ Len(data.objective_coeffs) = data.num_variables
    /\ Len(data.constraints) = data.num_constraints
    /\ \A i \in DOMAIN data.constraints :
           Len(data.constraints[i].coeffs) = data.num_variables

\* The step follows a completed save_problem, in a directory that holds
\* saved problems only, and is itself a load_problem that opened a file.
LoadAfterSave ==
    /\ dialog = Dialog("info", "saved")
    /\ \A name \in GuiListed(guiDir) : GuiSavedFile(guiDir[name])
    /\ dialog' \in {Dialog("info", "loaded"), Dialog("error", "loading")}

\* C8: in the GUI, save_problem followed by load_problem gives the same
\* problem back, whatever other saved problems the working directory holds.
C8_SaveLoadRoundTrip ==
    [][LoadAfterSave => (dialog'.kind = "info" /\ GuiProblem' = GuiProblem)]_vars

\* The step is a load_problem that reported an error.
LoadFailed == dialog' = Dialog("error", "loading")

\* C9: loading is all or nothing: a load_problem that reports an error
\* leaves the number of variables, the number of constraints, the sense and
\* every entry of the form as they were.
C9_FailedLoadChangesNothing ==
    [][LoadFailed => UNCHANGED formVars]_vars

\* C10: no error leaves an interactive surface unhandled: whatever the
\* choices and the answers, the CLI's menu loop is prompting or has ended
\* through choice 6.
C10_MenuLoopSurvives == cliPc \in {"off", "menu", "exited"}

-----------------------------------------------------------------------------
(* The bounds of the variables                                             *)

\* C11: in every call of the solver the bounds hold one entry per objective
\* coefficient, each of them (0, None), whatever the user typed and whether
\* the problem was typed in or loaded from a file.
C11_BoundsPerCoefficient ==
    linprogCall.called =>
        /\ Len(linprogCall.bounds) = Len(linprogCall.c)
        /\ \A k \in DOMAIN linprogCall.bounds :
               linprogCall.bounds[k] = [lower |-> 0, upper |-> NoneVal]


-----------------------------------------------------------------------------
(* The problems written out in the sources                                 *)

\* The production planning problem has just been solved: by the CLI's quick
\* example, by the test of the basic functionality, by the demonstration.
ProductionSolved ==
    /\ linprogCall.called
    /\ linprogCall.by \in {"quick_example", "test_basic_functionality",
                           "demo_production_problem"}

\* Maximize 3 x1 + 2 x2 subject to 2 x1 + x2 <= 100, x1 + x2 <= 80, x1 <= 40,
\* x >= 0, as the solver is given it.
ProductionAsStated ==
    /\ linprogCall.c = <<-300, -200>>
    /\ Rows(linprogCall.A_ub) = << <<200, 100>>, <<100, 100>>, <<100, 0>> >>
    /\ Rows(linprogCall.b_ub) = <<10000, 8000, 4000>>
    /\ linprogCall.A_eq = NoneVal
    /\ linprogCall.bounds = Bounds(2)

\* The solution shown is x with the objective value.
Shown(x, value) ==
    /\ result.status = "returned"
    /\ result.success
    /\ XShown(cliOut) = x
    /\ ValuesShown(cliOut) = <<value>>

\* C12 as stated: the production planning problem is solved to x = [20, 60]
\* and the value shown to the user is 220.
C12_ProductionShows220 ==
    ProductionSolved => (ProductionAsStated /\ Shown(<<2000, 6000>>, 22000))

\* C12: the production planning problem is solved to x = [20, 60], and the
\* value shown to the user is the solver's, sign turned back: 180, which is
\* 3 * 20 + 2 * 60.
C12_ProductionShows180 ==
    ProductionSolved => (ProductionAsStated /\ Shown(<<2000, 6000>>, 18000))

\* The demonstration has shown 20 and 60 units and a profit of 180.
C12_Witness ==
    /\ linprogCall.by = "demo_production_problem"
    /\ result.fun = -18000
    /\ Shown(<<2000, 6000>>, 18000)

\* The diet problem has just been solved: by the test of the examples, by
\* the demonstration.
DietSolved ==
    /\ linprogCall.called
    /\ linprogCall.by \in {"run_example_problems", "demo_diet_problem"}
    /\ Len(linprogCall.c) = 2

\* Minimize 0.5 x1 + 0.3 x2 subject to 2 x1 + x2 >= 10, x1 + 3 x2 >= 12,
\* x >= 0, as the solver is given it: the two rows turned to <=.
DietAsStated ==
    /\ linprogCall.c = <<50, 30>>
    /\ Rows(linprogCall.A_ub) = << <<-200, -100>>, <<-100, -300>> >>
    /\ Rows(linprogCall.b_ub) = <<-1000, -1200>>
    /\ linprogCall.A_eq = NoneVal
    /\ linprogCall.bounds = Bounds(2)

\* The point x meets the constraints of the diet problem.
DietFeasible(x) ==
    /\ x[1] >= 0
    /\ x[2] >= 0
    /\ 2 * x[1] + x[2] >= 1000
    /\ x[1] + 3 * x[2] >= 1200

\* C13 as stated: the diet problem is solved to the optimal value 3.6, at
\* x = [4.8, 2.4] or at another point of the same value.
C13_DietValue360 ==
    DietSolved =>
        /\ DietAsStated
        /\ result.status = "returned"
        /\ result.success
        /\ result.fun = 360
        /\ ValuesShown(cliOut) = <<360>>

\* C13: the diet problem is solved to the optimal value 2.64 at
\* x = [3.6, 2.8], where both requirements are met exactly; that value is
\* what the test and the demonstration print, and the demonstration prints
\* the point with it.  (x = [4.8, 2.4] is feasible and costs 3.12.)
C13_DietValue264 ==
    DietSolved =>
        /\ DietAsStated
        /\ result.status = "returned"
        /\ result.success
        /\ result.fun = 264
        /\ result.x = <<360, 280>>
        /\ DietFeasible(result.x)
        /\ 50 * result.x[1] + 30 * result.x[2] = 100 * result.fun
        /\ DietFeasible(<<480, 240>>)
        /\ 50 * 480 + 30 * 240 > 100 * result.fun
        /\ ValuesShown(cliOut) = <<264>>
        /\ linprogCall.by = "demo_diet_problem" => XShown(cliOut) = <<360, 280>>

\* The test of the examples has printed 2.64 for the diet problem.
C13_Witness ==
    /\ DietSolved
    /\ linprogCall.by = "run_example_problems"
    /\ scriptPc = "run_example_problems 2"
    /\ ValuesShown(cliOut) = <<264>>

-----------------------------------------------------------------------------
(* The shape of a solve                                                    *)

Pipeline == <<"normalize", "linprog", "translate">>

\* t is the beginning of the sequence s.
IsPrefix(t, s) == Len(t) <= Len(s) /\ t = SubSeq(s, 1, Len(t))

\* How often the step began what.
Times(what) == Cardinality({k \in DOMAIN trace : trace[k] = what})

\* This step was a solve of the CLI that came to its call of the solver, a
\* solve of the GUI.
CliSolved == linprogCall.called /\ linprogCall.by = "cli"
GuiSolved == linprogCall.by = "gui"

-----------------------------------------------------------------------------
(* Arrays that are there and arrays that are not                           *)

\* In m a matrix is None if and only if its vector is.
Paired(m) ==
    /\ m.A_ub = NoneVal <=> m.b_ub = NoneVal
    /\ m.A_eq = NoneVal <=> m.b_eq = NoneVal

\* In m the inequality arrays are None if and only if no constraint given
\* is a "<=" or a ">=", and the equality arrays if and only if all of them
\* are: a constraint is an equality to the front ends when it is neither.
AbsentWhenUnused(m, given) ==
    /\ m.A_ub = NoneVal <=> Inequalities(given, Len(given)) = {}
    /\ m.A_eq = NoneVal <=> Others(given, Len(given)) = {}

\* C15: for a problem typed into the CLI or filled into the GUI's form, the
\* A_ub and b_ub handed to the solver are None, both of them, exactly when
\* the problem has no <= and no >= constraint, and A_eq and b_eq are None,
\* both of them, exactly when it has no constraint taken for an equality; a
\* matrix is never None while its vector is there, nor the other way round.
\* The same holds of what input_problem stores.
C15_AbsentExactlyWhenUnused ==
    /\ entered # NoAnswers
           => Paired(problem) /\ AbsentWhenUnused(problem, CliGiven)
    /\ CliSolving
           => Paired(linprogCall) /\ AbsentWhenUnused(linprogCall, CliGiven)
    /\ GuiSolving
           => Paired(linprogCall) /\ AbsentWhenUnused(linprogCall, GuiGiven)

\* The CLI's solver call for a typed problem of MaxCons constraints, all of
\* them inequalities: A_ub and b_ub are there, A_eq and b_eq are None.
C15_Witness ==
    /\ CliSolving
    /\ Len(entered.cons) = MaxCons
    /\ Others(CliGiven, MaxCons) = {}
    /\ linprogCall.A_ub # NoneVal
    /\ linprogCall.b_ub # NoneVal
    /\ linprogCall.A_eq = NoneVal
    /\ linprogCall.b_eq = NoneVal

-----------------------------------------------------------------------------
(* The form's grid                                                         *)

\* C16: in the GUI, whatever has been done (the spinboxes with
\* update_problem_size, the examples, load_problem with or without success,
\* clear_problem, solve_problem), the grid of entries has the declared
\* dimensions: num_variables objective entries, num_constraints rows, bounds
\* and comboboxes, and num_variables entries in every row.
C16_GridMatchesDimensions ==
    /\ Len(obj_entries) = num_variables
    /\ Len(constraint_entries) = num_constraints
    /\ Len(bound_entries) = num_constraints
    /\ Len(type_combos) = num_constraints
    /\ \A i \in DOMAIN constraint_entries :
           Len(constraint_entries[i]) = num_variables

-----------------------------------------------------------------------------
(* Saving and loading in the CLI                                           *)

\* The file the user saves to holds the stored problem as save_problem
\* writes it: nothing has changed the problem since it was saved.
CliJustSaved ==
    /\ InCli
    /\ Truthy(problem)
    /\ saved = Json(CliSaveData(problem))

\* This step is load_problem reading that file.
CliLoadsSaved ==
    /\ CliJustSaved
    /\ problem' = CliLoadData(saved.d)
    /\ entered' = NoAnswers
    /\ cliPc' = cliPc
    /\ saved' = saved
    /\ trace' = <<>>

\* C17: in the CLI, save_problem(f) followed by load_problem(f) leaves the
\* stored problem as it was before the save: the same keys, c, arrays (those
\* that were None are None), num_vars and maximize.  So a solve after the
\* reload hands the solver what a solve before the save handed it, and
\* shows any result of the solver the same way, the sign included.
C17_CliSaveLoadRoundTrip ==
    [][CliLoadsSaved =>
          /\ problem' = problem
          /\ SolveKeys \subseteq problem.keys =>
                 /\ CliCall(problem') = CliCall(problem)
                 /\ \A r \in linprog(CliCall(problem)) :
                        CliSolveOutput(problem', r) = CliSolveOutput(problem, r)]_vars

\* A maximization the user typed, with inequalities only, has been saved
\* and loaded again: it is none of the files the directory held besides.
C17_Witness ==
    /\ CliJustSaved
    /\ entered = NoAnswers
    /\ SolveKeys \subseteq problem.keys
    /\ problem.maximize
    /\ problem.A_ub.ty = "ndarray"
    /\ problem.A_eq = NoneVal
    /\ \A name \in DOMAIN OtherFiles :
           OtherFiles[name].kind = "json" => problem # CliLoadData(OtherFiles[name].d)

-----------------------------------------------------------------------------
(* The two normalizers                                                     *)

\* The canonical form: c, A_ub, b_ub, A_eq, b_eq.
Canonical(m) == <<m.c, m.A_ub, m.b_ub, m.A_eq, m.b_eq>>

\* The GUI has just normalized the problem the user has in mind, typed into
\* its form as it would be typed into the CLI.
GuiNormalizedTyped ==
    /\ GuiSolving
    /\ FormTyped
    /\ objective_type = answers.sense

\* What input_problem makes of the same answers.
CliNormalized == input_problem(EmptyDict, answers)

\* C18: input_problem in the CLI and solve_problem in the GUI make the same
\* canonical form of the same problem: same sense, same objective
\* coefficients, same constraints in the same order, whatever the answer for
\* the sense and the texts of the operators, so long as both accept them.
C18_SameCanonicalForm ==
    GuiNormalizedTyped =>
        /\ ~CliNormalized.raised
        /\ Canonical(linprogCall) = Canonical(CliCall(CliNormalized.problem))

-----------------------------------------------------------------------------
(* A solve of the GUI that fails                                           *)

\* Every entry of the form spells a number.
FormReadable ==
    /\ AllFloat(obj_entries)
    /\ \A i \in 1..num_constraints :
           AllFloat(constraint_entries[i]) /\ float(bound_entries[i]).ok

\* This step is a solve_problem that does not come to show a result: it
\* fails while it builds the arrays, or in the call of the solver.
GuiSolveFails ==
    /\ InGui
    /\ trace' \in {<<"normalize">>, <<"normalize", "linprog">>}

\* C19: when solve_problem in the GUI fails before or in the call of the
\* solver, an error dialog is shown, the results text, the optimal-value
\* label and the status label keep what they held, and no result is there;
\* when it fails before the call, the solver is not called at all, so that
\* every call the GUI makes comes from a form all of whose entries spell
\* numbers.
C19_GuiFailedSolveShowsNothing ==
    [][/\ GuiSolveFails =>
              /\ dialog'.kind = "error"
              /\ UNCHANGED shownVars
              /\ result'.status # "returned"
              /\ trace' = <<"normalize">> => linprogCall' = NoCall
       /\ (InGui /\ linprogCall'.called) => FormReadable]_vars

\* After a solve that showed an optimum, an entry was emptied and the
\* solve tried again: the dialog is up, the optimum is still shown.
C19_Witness ==
    /\ InGui
    /\ trace = <<"normalize">>
    /\ ~FormReadable
    /\ linprogCall = NoCall
    /\ dialog.kind = "error"
    /\ status_label = OptimalMessage
    /\ results_text # <<>>

-----------------------------------------------------------------------------
(* Solving again in the CLI                                                *)

\* The arguments of a call: c, A_ub, b_ub, A_eq, b_eq, bounds.
Arguments(call) == <<call.c, call.A_ub, call.b_ub, call.A_eq, call.b_eq, call.bounds>>

\* C20: a solve of the CLI asks the user nothing and leaves the stored
\* problem as it is; of two solves one after the other the second hands the
\* solver the arguments of the first; and for a typed problem the objective
\* handed over is the typed one negated once for a maximization, however
\* often it has been solved.
C20_CliSolveLeavesProblem ==
    [][/\ CliSolved' =>
              /\ problem' = problem
              /\ entered' = entered
              /\ answers' = answers
              /\ Arguments(linprogCall') = Arguments(CliCall(problem))
              /\ entered # NoAnswers =>
                     linprogCall'.c = CliObjective(Floats(entered.obj), entered.obj_type)
       /\ (CliSolved /\ CliSolved') =>
              Arguments(linprogCall') = Arguments(linprogCall)]_vars

\* The CLI has solved a maximization the user typed: the solver got the
\* coefficients negated, and these are what the problem still holds.
C20_Witness ==
    /\ CliSolved
    /\ entered # NoAnswers
    /\ entered.sense = "maximize"
    /\ problem.maximize
    /\ Len(linprogCall.c) = MaxVars
    /\ linprogCall.c = Negate(Floats(entered.obj))
    /\ linprogCall.c # Floats(entered.obj)
    /\ problem.c = linprogCall.c

-----------------------------------------------------------------------------
(* The guards of the CLI's menu                                            *)

\* This step made the stored problem what load_problem makes of a file
\* that is there and is JSON.
CliLoaded ==
    \E name \in LoadNames :
        /\ FileAt(name).kind = "json"
        /\ problem' = CliLoadData(FileAt(name).d)

\* This step made it what a completed input_problem stores.
CliInputCompleted ==
    /\ entered' # NoAnswers
    /\ ~input_problem(problem, entered').raised
    /\ problem' = input_problem(problem, entered').problem

\* The guards proper: solve() is called and a file is written only for a
\* stored problem that is not empty.
CliGuarded ==
    /\ CliSolved' => Truthy(problem)
    /\ saved' # saved => Truthy(problem)

\* C21: in the CLI's menu loop the solver is called by choice 2 and a file
\* is written by choice 3 only when the stored problem is not empty; and the
\* stored problem, empty at first, ceases to be so only by an input_problem
\* that ran to its end or by a load_problem that succeeded.
C21_MenuGuards ==
    [][/\ CliGuarded
       /\ (~Truthy(problem) /\ Truthy(problem')) =>
              (CliInputCompleted \/ CliLoaded)]_vars

-----------------------------------------------------------------------------
(* Rows and bounds side by side and in the order given                     *)

\* Every "<=" constraint stands unchanged in A_ub/b_ub, at the index of its
\* turn among the inequalities.
LessKept(m, given) ==
    \A i \in DOMAIN given :
        given[i].op = "<=" =>
            LET k == Cardinality(Inequalities(given, i)) IN
            /\ k <= Len(Rows(m.A_ub))
            /\ Rows(m.A_ub)[k] = given[i].a
            /\ k <= Len(Rows(m.b_ub))
            /\ Rows(m.b_ub)[k] = given[i].b

\* The row of constraint i in the arrays of m: in A_ub for an inequality,
\* in A_eq for any other, with its bound in the vector beside it.
RowOf(m, given, i) ==
    IF i \in Inequalities(given, i)
    THEN [a |-> Rows(m.A_ub)[Cardinality(Inequalities(given, i))],
          b |-> Rows(m.b_ub)[Cardinality(Inequalities(given, i))]]
    ELSE [a |-> Rows(m.A_eq)[Cardinality(Others(given, i))],
          b |-> Rows(m.b_eq)[Cardinality(Others(given, i))]]

\* Within A_ub and within A_eq the rows follow one another as the
\* constraints were given, each with its bound at its own index: the k-th
\* row of a kind is the k-th constraint of that kind, negated if it is a
\* ">=".
InOrderGiven(m, given) ==
    \A i \in DOMAIN given :
        RowOf(m, given, i) =
            IF given[i].op = ">="
            THEN [a |-> Negate(given[i].a), b |-> -given[i].b]
            ELSE [a |-> given[i].a, b |-> given[i].b]

Aligned(m, given) ==
    /\ OneRowEach(m, given)
    /\ Len(Rows(m.A_ub)) + Len(Rows(m.A_eq)) = Len(given)
    /\ LessKept(m, given)
    /\ InOrderGiven(m, given)

\* C22: normalization keeps rows and bounds side by side and in the order
\* given: A_ub has as many rows as b_ub entries, A_eq as b_eq, together as
\* many as there are constraints; every "<=" constraint stands in A_ub/b_ub
\* unchanged; and within A_ub and within A_eq the rows come in the order of
\* their constraints.  So in what input_problem stores, in the CLI's call
\* of the solver for it, and in the GUI's call.
C22_RowsAlignedInOrder ==
    /\ entered # NoAnswers => Aligned(problem, CliGiven)
    /\ CliSolving => Aligned(linprogCall, CliGiven)
    /\ GuiSolving => Aligned(linprogCall, GuiGiven)

\* The CLI's solver call for a typed problem whose constraints are a "<="
\* and then a ">=" with different rows: both in A_ub, the "<=" first and
\* unchanged.
C22_Witness ==
    /\ CliSolving
    /\ Len(CliGiven) = 2
    /\ CliGiven[1].op = "<="
    /\ CliGiven[2].op = ">="
    /\ Len(Rows(linprogCall.A_ub)) = 2
    /\ Rows(linprogCall.A_ub)[1] = CliGiven[1].a
    /\ Rows(linprogCall.A_ub)[1] # Rows(linprogCall.A_ub)[2]
    /\ Rows(linprogCall.b_ub)[1] = CliGiven[1].b

-----------------------------------------------------------------------------
(* Operators that are none of the three                                    *)

\* Constraint i has an operator that is none of "<=", ">=", "=" to the
\* front end.
NonStandard(given, i) == given[i].op \notin {"<=", ">=", "="}

\* The constraints given, with "=" put for every such operator.
AsEquality(given) ==
    [i \in DOMAIN given |->
        IF NonStandard(given, i) THEN [given[i] EXCEPT !.op = "="] ELSE given[i]]

\* m holds what it would hold had "=" been given for them.
LikeEquality(m, given) ==
    /\ EqualKept(m, AsEquality(given))
    /\ OneRowEach(m, AsEquality(given))

\* C23: a constraint whose operator is none of "<=", ">=", "=" ("==", or in
\* the GUI an operator with blanks around it) is not turned away: the CLI's
\* input_problem runs to its end on the user's answers whatever their
\* operators, and a solve of the GUI fails before the call only when an
\* entry spells no number.  The constraint is normalized as an "=" is: its
\* coefficients and bound stand unchanged in A_eq/b_eq.
C23_OtherOperatorsAreEqualities ==
    /\ answers # NoAnswers => ~input_problem(EmptyDict, answers).raised
    /\ (InGui /\ trace = <<"normalize">>) => ~FormReadable
    /\ entered # NoAnswers => LikeEquality(problem, CliGiven)
    /\ CliSolving => LikeEquality(linprogCall, CliGiven)
    /\ GuiSolving => LikeEquality(linprogCall, GuiGiven)

\* The GUI's solver call for a form in which a combobox holds ">=" with
\* blanks around it: the row stands in A_eq as typed, not negated.
C23_Witness ==
    /\ GuiSolving
    /\ \E i \in DOMAIN type_combos :
           /\ type_combos[i].pad
           /\ type_combos[i].sym = ">="
           /\ NonStandard(GuiGiven, i)
           /\ Rows(linprogCall.A_eq)[Cardinality(Others(GuiGiven, i))] = GuiGiven[i].a
           /\ GuiGiven[i].a # Negate(GuiGiven[i].a)
           /\ Rows(linprogCall.b_eq)[Cardinality(Others(GuiGiven, i))] = GuiGiven[i].b

-----------------------------------------------------------------------------
(* The launcher                                                            *)

\* This step starts an interface: the GUI, the CLI.
StartsGui ==
    /\ launcherPc' = "gui" /\ launched' = <<"gui">>
    /\ guiPc = "off" /\ guiPc' = "running" /\ cliPc' = cliPc
StartsCli ==
    /\ launcherPc' = "cli" /\ launched' = <<"cli">>
    /\ cliPc = "off" /\ cliPc' = "menu" /\ guiPc' = guiPc

\* C24: run_lp_solver.main starts an interface only from its menu, which it
\* comes to only when check_dependencies has returned True: when that
\* returns False, main ends at once, nothing prompted and nothing started.
\* The menu is left on choice 1 with the GUI started, on choice 2 with the
\* CLI started, on choice 4 with nothing started; any other choice starts
\* nothing and stays in it.  When the started interface ends, main ends.
\* So a run starts at most one interface, and an interface runs only when
\* started.
C24_LauncherStartsAtMostOne ==
    [][/\ launcherPc = "start" =>
              /\ launcherPc' \in {"start", "menu", "done"}
              /\ launched' = <<>>
              /\ cliPc' = "off" /\ guiPc' = "off"
       /\ launcherPc = "menu" =>
              \/ StartsGui
              \/ StartsCli
              \/ launcherPc' = "done" /\ launched' = <<>> /\ launched = <<>>
                 /\ cliPc' = "off" /\ guiPc' = "off"
       /\ launcherPc \in {"gui", "cli"} =>
              /\ launcherPc' \in {launcherPc, "done"}
              /\ launched' = launched
       /\ launched' # launched => (launcherPc = "menu" /\ launched = <<>>)
       /\ Len(launched') <= 1
       /\ cliPc' # "off" => launched' = <<"cli">>
       /\ guiPc' # "off" => launched' = <<"gui">>]_vars

\* The run has ended after the one GUI it started was closed.
C24_Witness ==
    /\ launcherPc = "done"
    /\ launched = <<"gui">>
    /\ guiPc = "closed"
    /\ cliPc = "off"
=============================================================================
